---- MODULE Spec2Model ----
(***************************************************************************)
(* Model of feedmix's OAuth package (src/pkg/oauth/oauth.go).              *)
(*                                                                         *)
(* Spec / FairSpec : CallbackServer.WaitForCallback, its background serve  *)
(*                   task, the per-request handler goroutines, the timer   *)
(*                   and the caller's context, and the TCP port.           *)
(* StorageSpec     : TokenStorage.Save / Load over a small file system.    *)
(***************************************************************************)
EXTENDS Integers, Sequences, FiniteSets, TLC

(***************************************************************************)
(* Bounds of the model.                                                    *)
(***************************************************************************)
MaxCalls == 2       \* WaitForCallback invocations on one CallbackServer
MaxRequests == 2    \* inbound HTTP requests over the whole run
MaxSegments == 2    \* segments of a provider name
MaxOps == 2         \* TokenStorage operations over the whole run
MaxNamedOps == 3    \* the same, in a run on the named providers
MaxFlowOps == 2     \* Config and Flow operations over the whole run
MaxAuthOps == 3     \* the same, in a run of the auth command

(***************************************************************************)
(* Values.                                                                 *)
(***************************************************************************)
Ports == {8080}
ExpectedStates == {"abc123"}                \* the state a caller passes
States == {"abc123", "attacker-state"}      \* the state a request carries
Codes == {"", "auth-xyz", "attacker-code"}
CallbackPath == "/callback"
OtherPath == "/favicon.ico"

StatusOK == 200
StatusBadRequest == 400

\* errors are modelled by their message, a sequence of text pieces; nil is << >>
NoError == << >>
ErrInvalidState == <<"invalid state parameter">>
ErrMissingCode == <<"missing authorization code">>
DeadlineExceeded == <<"context deadline exceeded">>
Canceled == <<"context canceled">>

Digit(d) == <<"0", "1", "2", "3", "4", "5", "6", "7", "8", "9">>[d + 1]

\* fmt's %d of a non-negative integer, one piece per decimal digit
RECURSIVE Itoa(_)
Itoa(n) == IF n < 10 THEN <<Digit(n)>> ELSE Itoa(n \div 10) \o <<Digit(n % 10)>>

\* fmt.Sprintf(":%d", s.port)
ListenAddr(p) == <<":">> \o Itoa(p)

\* the *net.OpError of a failed net.Listen("tcp", addr)
AddrInUse(addr) == <<"listen tcp ">> \o addr \o <<": bind: address already in use">>

StartErrorNoPort(p) == <<"failed to start server">>

\* fmt.Errorf("failed to start server: %w", err)
StartError(p) == <<"failed to start server: ">> \o AddrInUse(ListenAddr(p))

\* strings.Contains on sequences of pieces
Contains(s, sub) ==
    \E i \in 0..(Len(s) - Len(sub)) : \A j \in 1..Len(sub) : s[i + j] = sub[j]

(***************************************************************************)
(* Paths are sequences of characters; TokenSuffix stands for the text      *)
(* "_token.json", which holds no separator and no dot segment.             *)
(***************************************************************************)
Sep == "/"
TokenSuffix == <<"_token.json">>
Dot == <<".">>
DotDot == <<".", ".">>

\* the segments a provider name is made of: empty (a leading, doubled or
\* trailing separator), ".", ".." and a plain name
Segments == {<< >>, Dot, DotDot, <<"a">>}

RECURSIVE JoinSegments(_)
JoinSegments(segs) ==
    IF Len(segs) = 0 THEN << >>
    ELSE IF Len(segs) = 1 THEN segs[1]
    ELSE segs[1] \o <<Sep>> \o JoinSegments(Tail(segs))

\* provider names as callers write them: "youtube", "x/youtube", "linkedin"
NamedProviders == {<<"youtube">>, <<"x", "/", "youtube">>, <<"linkedin">>}

\* every provider name of at most MaxSegments segments: "", "/", "..",
\* "../a", "/a", "a/..", "a/", ...
Providers ==
    {JoinSegments(segs) : segs \in UNION {[1..m -> Segments] : m \in 1..MaxSegments}}

RECURSIVE StripTrailingSeps(_)
StripTrailingSeps(path) ==
    IF Len(path) > 0 /\ path[Len(path)] = Sep
    THEN StripTrailingSeps(SubSeq(path, 1, Len(path) - 1))
    ELSE path

\* index of the last separator of path, 0 when it has none
LastSep(path) ==
    IF \E i \in 1..Len(path) : path[i] = Sep
    THEN CHOOSE i \in 1..Len(path) :
            path[i] = Sep /\ \A j \in (i + 1)..Len(path) : path[j] # Sep
    ELSE 0

BaseIdentity(path) == path

\* filepath.Base: the last element of path, trailing separators removed;
\* "." for the empty path, "/" for a path of separators only
Base(path) ==
    IF path = << >> THEN Dot
    ELSE LET stripped == StripTrailingSeps(path)
             last == SubSeq(stripped, LastSep(stripped) + 1, Len(stripped))
         IN IF last = << >> THEN <<Sep>> ELSE last

\* the elements of path between separators, empty ones dropped
RECURSIVE Elements(_)
Elements(path) ==
    IF path = << >> THEN << >>
    ELSE IF path[1] = Sep THEN Elements(Tail(path))
    ELSE LET n == IF \E i \in 1..Len(path) : path[i] = Sep
                  THEN (CHOOSE i \in 1..Len(path) :
                           path[i] = Sep /\ \A j \in 1..(i - 1) : path[j] # Sep) - 1
                  ELSE Len(path)
         IN <<SubSeq(path, 1, n)>> \o Elements(SubSeq(path, n + 1, Len(path)))

\* filepath.Clean's pass over the elements: "." is dropped, ".." removes the
\* element before it, is dropped at the root, and is kept at the start of a
\* relative path
RECURSIVE CleanElements(_, _, _)
CleanElements(elems, out, rooted) ==
    IF elems = << >> THEN out
    ELSE LET e == Head(elems)
         IN CleanElements(Tail(elems),
                CASE e = Dot -> out
                  [] e = DotDot /\ out # << >> /\ out[Len(out)] # DotDot ->
                        SubSeq(out, 1, Len(out) - 1)
                  [] e = DotDot /\ out = << >> /\ rooted -> out
                  [] OTHER -> Append(out, e),
                rooted)

RECURSIVE JoinElements(_)
JoinElements(elems) ==
    IF elems = << >> THEN << >>
    ELSE IF Len(elems) = 1 THEN elems[1]
    ELSE elems[1] \o <<Sep>> \o JoinElements(Tail(elems))

\* filepath.Clean
Clean(path) ==
    LET rooted == path # << >> /\ path[1] = Sep
        body == JoinElements(CleanElements(Elements(path), << >>, rooted))
    IN IF rooted THEN <<Sep>> \o body
       ELSE IF body = << >> THEN Dot ELSE body

\* filepath.Join of two elements
Join(dir, name) ==
    IF dir = << >> THEN Clean(name)
    ELSE IF name = << >> THEN Clean(dir)
    ELSE Clean(dir \o <<Sep>> \o name)

\* filepath.Dir
Dir(path) == Clean(SubSeq(path, 1, LastSep(path)))

Calls == 1..MaxCalls
Reqs == 1..MaxRequests

\* who holds the TCP port: nobody, another process, or the listener of call k
Free == [who |-> "free", k |-> 0]
Other == [who |-> "other", k |-> 0]
Listener(k) == [who |-> "listener", k |-> k]

VARIABLES
    port,       \* CallbackServer.port
    portOwner,  \* Free, Other, or the call whose listener is bound to the port
    call,       \* number of WaitForCallback invocations made so far
    wpc,        \* position of the caller inside WaitForCallback
    ret,        \* what the last invocation returned: [code, err]
    expected,   \* expectedState of the current invocation
    serve,      \* the `go server.Serve(listener)` task of each invocation
    srvClosed,  \* server.Close() has run for the invocation
    codeChan,   \* codeChan of the current invocation (capacity 1)
    errChan,    \* errChan of the current invocation (capacity 1)
    ctxErr,     \* timeoutCtx.Err() of the current invocation (NoError: not done)
    reqs,       \* the inbound requests of the current invocation and their
                \* handler goroutines
    fsRoot,     \* TokenStorage.dir
    fs,         \* the files of the file system: path -> content
    dirs,       \* the directories of the file system
    ops,        \* number of TokenStorage operations made so far
    lastOp,     \* the last TokenStorage operation and what it returned
    history,    \* what happened to the token files of the named providers,
                \* oldest first: successful Saves and foreign writes
    flow,       \* the Flow made by NewFlow: <<config>>, or << >> before that
    flowOps,    \* number of Config and Flow operations made so far
    lastCall,   \* the last Config or Flow operation: its inputs and results
    browser,    \* what browser.Open was asked to show: <<url>>, or << >> before that
    items,      \* Aggregator.items
    feed,       \* the last GetFeed call: its options and what it returned
    task,       \* the fetch goroutine of each subscription of the feed command
    mu,         \* the feed command's mutex: 0, or the subscription whose task holds it
    wg,         \* the counter of the feed command's WaitGroup
    cmd         \* position of the feed command's own goroutine

cbVars == <<port, portOwner, call, wpc, ret, expected, serve, srvClosed,
            codeChan, errChan, ctxErr, reqs>>
fsVars == <<fsRoot, fs, dirs, ops, lastOp, history>>
flowVars == <<flow, flowOps, lastCall, browser>>
feedVars == <<items, feed, task, mu, wg, cmd>>
vars == <<port, portOwner, call, wpc, ret, expected, serve, srvClosed,
          codeChan, errChan, ctxErr, reqs, fsRoot, fs, dirs, ops, lastOp,
          history, flow, flowOps, lastCall, browser, items, feed, task, mu,
          wg, cmd>>

NewRequest == [pc |-> "new", call |-> 0, path |-> "", state |-> "", code |-> "",
               status |-> 0, codeRead |-> FALSE, send |-> "none", msg |-> << >>]

\* a request served during an earlier invocation: its handler can only touch
\* that invocation's channels, which nothing reads any more
GoneRequest == [pc |-> "gone", call |-> 0, path |-> "", state |-> "", code |-> "",
                status |-> 0, codeRead |-> FALSE, send |-> "none", msg |-> << >>]

NoResult == [code |-> "", err |-> NoError]

(***************************************************************************)
(* The request handler registered on the mux (oauth.go:158-177), run by    *)
(* net/http in one goroutine per accepted connection.  It yields the       *)
(* response status, whether "code" was read, and the message to publish.   *)
(***************************************************************************)
HandlerNoStateCheck(expectedState, state, code) ==
    IF code = ""
    THEN [status |-> StatusBadRequest, codeRead |-> TRUE, send |-> "err", msg |-> ErrMissingCode]
    ELSE [status |-> StatusOK, codeRead |-> TRUE, send |-> "code", msg |-> <<code>>]

HandlerCodeFirst(expectedState, state, code) ==
    IF code = ""
    THEN [status |-> StatusBadRequest, codeRead |-> TRUE, send |-> "err", msg |-> ErrMissingCode]
    ELSE IF state # expectedState
    THEN [status |-> StatusBadRequest, codeRead |-> TRUE, send |-> "err", msg |-> ErrInvalidState]
    ELSE [status |-> StatusOK, codeRead |-> TRUE, send |-> "code", msg |-> <<code>>]

HandlerMissingIsInvalid(expectedState, state, code) ==
    IF state # expectedState \/ code = ""
    THEN [status |-> StatusBadRequest, codeRead |-> state = expectedState,
          send |-> "err", msg |-> ErrInvalidState]
    ELSE [status |-> StatusOK, codeRead |-> TRUE, send |-> "code", msg |-> <<code>>]

Handler(expectedState, state, code) ==
    IF state # expectedState
    THEN [status |-> StatusBadRequest, codeRead |-> FALSE, send |-> "err", msg |-> ErrInvalidState]
    ELSE IF code = ""
    THEN [status |-> StatusBadRequest, codeRead |-> TRUE, send |-> "err", msg |-> ErrMissingCode]
    ELSE [status |-> StatusOK, codeRead |-> TRUE, send |-> "code", msg |-> <<code>>]

MuxAnyPath(expectedState, path, state, code) == Handler(expectedState, state, code)

\* http.ServeMux with the single pattern "/callback": any other path is a 404
Mux(expectedState, path, state, code) ==
    IF path = CallbackPath
    THEN Handler(expectedState, state, code)
    ELSE [status |-> 404, codeRead |-> FALSE, send |-> "none", msg |-> << >>]

(***************************************************************************)
(* The three-way select of oauth.go:194-201.                               *)
(***************************************************************************)
\* the cases of the select that can proceed
Ready ==
    (IF codeChan # << >> THEN {"code"} ELSE {}) \cup
    (IF errChan # << >> THEN {"err"} ELSE {}) \cup
    (IF ctxErr # NoError THEN {"done"} ELSE {})

ReadyNoDeadline ==
    (IF codeChan # << >> THEN {"code"} ELSE {}) \cup
    (IF errChan # << >> THEN {"err"} ELSE {})

\* the value returned by each case
CaseResult(c) ==
    CASE c = "code" -> [code |-> Head(codeChan)[1], err |-> NoError]
      [] c = "err"  -> [code |-> "", err |-> Head(errChan)]
      [] c = "done" -> [code |-> "", err |-> ctxErr]

\* the result handed to a caller parked in the select by a sender
Handoff(send, msg) ==
    IF send = "code" THEN [code |-> msg[1], err |-> NoError]
    ELSE [code |-> "", err |-> msg]

(***************************************************************************)
(* Init: a CallbackServer constructed on some port; no call made yet.      *)
(***************************************************************************)
CbInit ==
    /\ port \in Ports
    /\ portOwner = Free
    /\ call = 0
    /\ wpc = "idle"
    /\ ret = NoResult
    /\ expected = ""
    /\ serve = [k \in Calls |-> "none"]
    /\ srvClosed = [k \in Calls |-> FALSE]
    /\ codeChan = << >>
    /\ errChan = << >>
    /\ ctxErr = NoError
    /\ reqs = [r \in Reqs |-> NewRequest]

(***************************************************************************)
(* WaitForCallback, oauth.go:153-192: make the channels, register the      *)
(* handler, net.Listen; on failure return at once, otherwise spawn the     *)
(* serve task and arm the timeout context.  The channels are new ones:     *)
(* handlers of earlier invocations keep the old ones and are no longer     *)
(* followed.                                                               *)
(***************************************************************************)
\* net.Listen fails when the port is held, by whomever
BindFails == portOwner # Free

StartResult(p) == [code |-> "", err |-> StartError(p)]

Call(st) ==
    /\ wpc \in {"idle", "returned"}
    /\ call < MaxCalls
    /\ call' = call + 1
    /\ expected' = st
    /\ ctxErr' = NoError
    /\ codeChan' = << >>
    /\ errChan' = << >>
    /\ reqs' = [r \in Reqs |-> IF reqs[r].pc = "new" THEN reqs[r] ELSE GoneRequest]
    /\ IF BindFails
       THEN /\ wpc' = "returned"
            /\ ret' = StartResult(port)
            /\ UNCHANGED <<portOwner, serve, fsVars, flowVars, feedVars>>
       ELSE /\ wpc' = "running"
            /\ ret' = NoResult
            /\ portOwner' = Listener(call + 1)
            /\ serve' = [serve EXCEPT ![call + 1] = "spawned"]
    /\ UNCHANGED <<port, srvClosed, fsVars, flowVars, feedVars>>

(***************************************************************************)
(* The background task `go func() { _ = server.Serve(listener) }()`,       *)
(* oauth.go:188.  Serve registers the listener with the server unless the  *)
(* server is already closed, in which case it closes the listener itself   *)
(* and returns.                                                            *)
(***************************************************************************)
ServeStart(k) ==
    /\ serve[k] = "spawned"
    /\ IF srvClosed[k]
       THEN /\ serve' = [serve EXCEPT ![k] = "exited"]
            /\ portOwner' = IF portOwner = Listener(k) THEN Free ELSE portOwner
       ELSE /\ serve' = [serve EXCEPT ![k] = "serving"]
            /\ UNCHANGED portOwner
    /\ UNCHANGED <<port, call, wpc, ret, expected, srvClosed, codeChan, errChan,
                   ctxErr, reqs, fsVars, flowVars, feedVars>>

(***************************************************************************)
(* A request is accepted by the serve loop and its handler goroutine runs  *)
(* up to the channel send (oauth.go:158-176).                              *)
(***************************************************************************)
ServeRequest(r, path, state, code) ==
    /\ reqs[r].pc = "new"
    /\ \A q \in Reqs : q < r => reqs[q].pc # "new"
    /\ portOwner.who = "listener"
    /\ LET k == portOwner.k
           h == Mux(expected, path, state, code)
       IN /\ serve[k] = "serving"
          /\ reqs' = [reqs EXCEPT ![r] =
                 [pc |-> IF h.send = "none" THEN "done" ELSE "sending",
                  call |-> k, path |-> path, state |-> state, code |-> code,
                  status |-> h.status, codeRead |-> h.codeRead,
                  send |-> h.send, msg |-> h.msg]]
    /\ UNCHANGED <<port, portOwner, call, wpc, ret, expected, serve, srvClosed,
                   codeChan, errChan, ctxErr, fsVars, flowVars, feedVars>>

(***************************************************************************)
(* The handler's channel send (oauth.go:162, 170, 176).  A caller parked   *)
(* in the select receives the value directly; otherwise the value goes     *)
(* into the one-slot buffer, and the send blocks while the slot is taken.  *)
(***************************************************************************)
CanSend(ch) == Len(ch) < 1

Publish(r) ==
    /\ reqs[r].pc = "sending"
    /\ LET q == reqs[r]
       IN IF wpc = "parked"
          THEN /\ wpc' = "woken"
               /\ ret' = Handoff(q.send, q.msg)
               /\ UNCHANGED <<codeChan, errChan>>
          ELSE /\ IF q.send = "code"
                  THEN /\ CanSend(codeChan)
                       /\ codeChan' = Append(codeChan, q.msg)
                       /\ UNCHANGED errChan
                  ELSE /\ CanSend(errChan)
                       /\ errChan' = Append(errChan, q.msg)
                       /\ UNCHANGED codeChan
               /\ UNCHANGED <<wpc, ret>>
    /\ reqs' = [reqs EXCEPT ![r].pc = "done"]
    /\ UNCHANGED <<port, portOwner, call, expected, serve, srvClosed, ctxErr, fsVars, flowVars, feedVars>>

(***************************************************************************)
(* timeoutCtx (oauth.go:191): the timer fires, or the caller's context is  *)
(* cancelled.  Either closes timeoutCtx.Done() and wakes a parked caller.  *)
(***************************************************************************)
CtxDone(e) ==
    /\ wpc \in {"running", "parked"}
    /\ ctxErr = NoError
    /\ ctxErr' = e
    /\ IF wpc = "parked"
       THEN /\ wpc' = "woken"
            /\ ret' = [code |-> "", err |-> e]
       ELSE UNCHANGED <<wpc, ret>>
    /\ UNCHANGED <<port, portOwner, call, expected, serve, srvClosed, codeChan,
                   errChan, reqs, fsVars, flowVars, feedVars>>

Expire == CtxDone(DeadlineExceeded)

Cancel == CtxDone(Canceled)

(***************************************************************************)
(* The caller reaches the select (oauth.go:194): with no case ready it     *)
(* parks; otherwise Go picks one of the ready cases.                       *)
(***************************************************************************)
SelectReady == Ready

Select ==
    /\ wpc = "running"
    /\ IF SelectReady = {}
       THEN /\ wpc' = "parked"
            /\ UNCHANGED <<ret, codeChan, errChan>>
       ELSE \E c \in SelectReady :
            /\ wpc' = "woken"
            /\ ret' = CaseResult(c)
            /\ codeChan' = IF c = "code" THEN Tail(codeChan) ELSE codeChan
            /\ errChan' = IF c = "err" THEN Tail(errChan) ELSE errChan
    /\ UNCHANGED <<port, portOwner, call, expected, serve, srvClosed, ctxErr, reqs, fsVars, flowVars, feedVars>>

(***************************************************************************)
(* Return from WaitForCallback: the deferred cancel() and server.Close()   *)
(* (oauth.go:189, 192).  Close marks the server closed and closes the      *)
(* listeners that Serve has registered.                                    *)
(***************************************************************************)
ClosePortLeavesListener(k) == portOwner

ClosePort(k) ==
    IF serve[k] = "serving" /\ portOwner = Listener(k) THEN Free ELSE portOwner

Return ==
    /\ wpc = "woken"
    /\ wpc' = "returned"
    /\ srvClosed' = [srvClosed EXCEPT ![call] = TRUE]
    /\ portOwner' = ClosePort(call)
    /\ serve' = [serve EXCEPT ![call] = IF @ = "serving" THEN "exited" ELSE @]
    /\ UNCHANGED <<port, call, ret, expected, codeChan, errChan, ctxErr, reqs, fsVars, flowVars, feedVars>>

(***************************************************************************)
(* Another process binds or releases the port.                             *)
(***************************************************************************)
OtherBind ==
    /\ portOwner = Free
    /\ wpc \in {"idle", "returned"}
    /\ portOwner' = Other
    /\ UNCHANGED <<port, call, wpc, ret, expected, serve, srvClosed, codeChan,
                   errChan, ctxErr, reqs, fsVars, flowVars, feedVars>>

OtherRelease ==
    /\ portOwner = Other
    /\ portOwner' = Free
    /\ UNCHANGED <<port, call, wpc, ret, expected, serve, srvClosed, codeChan,
                   errChan, ctxErr, reqs, fsVars, flowVars, feedVars>>

Next ==
    \/ \E st \in ExpectedStates : Call(st)
    \/ \E k \in Calls : ServeStart(k)
    \/ \E r \in Reqs, state \in States, code \in Codes :
          ServeRequest(r, CallbackPath, state, code)
    \/ \E r \in Reqs : ServeRequest(r, OtherPath, "", "")
    \/ \E r \in Reqs : Publish(r)
    \/ Expire
    \/ Cancel
    \/ Select
    \/ Return
    \/ OtherBind
    \/ OtherRelease

(***************************************************************************)
(* TokenStorage (oauth.go:204-244).                                        *)
(***************************************************************************)
Roots == {<<"/", "a">>, <<"a", "/", ".">>}

(***************************************************************************)
(* encoding/json on a Token (oauth.go:217, 239).  A Go string is a         *)
(* sequence of runes and bytes: a piece of plain text stands for a run of  *)
(* ASCII letters, InvalidByte for a byte that is not valid UTF-8.          *)
(* json.Marshal escapes the quote and "<" and writes an invalid byte as    *)
(* the escape of U+FFFD; json.Unmarshal undoes the escapes.                *)
(***************************************************************************)
InvalidByte == "0xFF"
ReplacementRune == "U+FFFD"
Quote == "\""

EscapeRune(c) ==
    CASE c = InvalidByte -> "\\ufffd"
      [] c = Quote -> "\\\""
      [] c = "<" -> "\\u003c"
      [] OTHER -> c

UnescapeRune(e) ==
    CASE e = "\\ufffd" -> ReplacementRune
      [] e = "\\\"" -> Quote
      [] e = "\\u003c" -> "<"
      [] OTHER -> e

EncodeString(s) == [i \in 1..Len(s) |-> EscapeRune(s[i])]
DecodeString(text) == [i \in 1..Len(text) |-> UnescapeRune(text[i])]

\* strconv's decimal form of an int64, and its parse
FormatInt(n) == IF n < 0 THEN <<"-">> \o Itoa(-n) ELSE Itoa(n)

DigitValue(ch) == CHOOSE d \in 0..9 : Digit(d) = ch

RECURSIVE ParseDigits(_)
ParseDigits(text) ==
    IF Len(text) = 0 THEN 0
    ELSE 10 * ParseDigits(SubSeq(text, 1, Len(text) - 1)) + DigitValue(text[Len(text)])

ParseInt(text) ==
    IF Head(text) = "-" THEN 0 - ParseDigits(Tail(text)) ELSE ParseDigits(text)

JSONString(s) == [kind |-> "string", text |-> EncodeString(s)]
JSONNumber(n) == [kind |-> "number", text |-> FormatInt(n)]

\* a JSON object with the given members; NotJSON is a text that does not parse
JSONObject(members) == [json |-> TRUE, members |-> members]
NotJSON == [json |-> FALSE, members |-> << >>]

Tokens ==
    {[AccessToken |-> <<"ya29.access">>, RefreshToken |-> <<"1//refresh">>,
      TokenType |-> <<"Bearer">>, ExpiresIn |-> 3600],
     [AccessToken |-> <<"new", "<", Quote>>, RefreshToken |-> << >>,
      TokenType |-> <<"Bearer">>, ExpiresIn |-> 0],
     [AccessToken |-> <<"tok", InvalidByte>>, RefreshToken |-> << >>,
      TokenType |-> <<"Bearer">>, ExpiresIn |-> 0 - 1]}

ErrTokenNotFound == <<"token not found">>
ErrReadToken == <<"failed to read token: ">>
ErrUnmarshalToken == <<"failed to unmarshal token: ">>
ErrWriteFile == <<"open: no such file or directory">>

NoOp == [op |-> "none", provider |-> << >>, path |-> << >>, err |-> NoError,
         token |-> << >>]

\* json.Marshal of a Token: the four fields under their json names, none omitted
Marshal(token) ==
    JSONObject(<<<<"access_token", JSONString(token.AccessToken)>>,
                 <<"refresh_token", JSONString(token.RefreshToken)>>,
                 <<"token_type", JSONString(token.TokenType)>>,
                 <<"expires_in", JSONNumber(token.ExpiresIn)>>>>)

HasMember(data, key) == \E i \in 1..Len(data.members) : data.members[i][1] = key

Member(data, key) ==
    data.members[CHOOSE i \in 1..Len(data.members) : data.members[i][1] = key][2]

\* a member fits a field when it is of the field's JSON kind or null; a number
\* fits an int64 only when it has no fraction
Fits(data, key, kind) ==
    HasMember(data, key) =>
        \/ Member(data, key).kind = "null"
        \/ /\ Member(data, key).kind = kind
           /\ \A i \in 1..Len(Member(data, key).text) : Member(data, key).text[i] # "."

UnmarshalFails(data) ==
    \/ ~data.json
    \/ ~Fits(data, "access_token", "string")
    \/ ~Fits(data, "refresh_token", "string")
    \/ ~Fits(data, "token_type", "string")
    \/ ~Fits(data, "expires_in", "number")

StringField(data, key) ==
    IF HasMember(data, key) /\ Member(data, key).kind = "string"
    THEN DecodeString(Member(data, key).text) ELSE << >>

IntField(data, key) ==
    IF HasMember(data, key) /\ Member(data, key).kind = "number"
    THEN ParseInt(Member(data, key).text) ELSE 0

UnmarshalNoExpiry(data) ==
    [AccessToken |-> StringField(data, "access_token"),
     RefreshToken |-> StringField(data, "refresh_token"),
     TokenType |-> StringField(data, "token_type"),
     ExpiresIn |-> 0]

\* json.Unmarshal into a zero Token: absent and null members leave the zero value
Unmarshal(data) ==
    [AccessToken |-> StringField(data, "access_token"),
     RefreshToken |-> StringField(data, "refresh_token"),
     TokenType |-> StringField(data, "token_type"),
     ExpiresIn |-> IntField(data, "expires_in")]

\* the path and its ancestors, as os.MkdirAll creates them
RECURSIVE Ancestors(_)
Ancestors(path) ==
    IF Dir(path) = path THEN {path} ELSE {path} \cup Ancestors(Dir(path))

\* cleanProvider := filepath.Base(provider), oauth.go:223
SanitizeSave(provider) == Base(provider)

\* cleanProvider := filepath.Base(provider), oauth.go:229
SanitizeLoad(provider) == Base(provider)

\* filepath.Join(s.dir, cleanProvider+"_token.json"), oauth.go:224
SavePath(dir, provider) == Join(dir, SanitizeSave(provider) \o TokenSuffix)

\* filepath.Join(s.dir, cleanProvider+"_token.json"), oauth.go:230
LoadPath(dir, provider) == Join(dir, SanitizeLoad(provider) \o TokenSuffix)

\* the two paths of every root and provider, computed once
AllProviders == Providers \cup NamedProviders
SavePaths == [dir \in Roots |-> [provider \in AllProviders |-> SavePath(dir, provider)]]
LoadPaths == [dir \in Roots |-> [provider \in AllProviders |-> LoadPath(dir, provider)]]
RootDirs == [dir \in Roots |-> Ancestors(Clean(dir))]
ParentDirs == [dir \in Roots |-> [provider \in AllProviders |-> Dir(SavePaths[dir][provider])]]

\* os.WriteFile creates or truncates a file in an existing directory
CanWrite(dir, provider) ==
    /\ ParentDirs[dir][provider] \in dirs'
    /\ SavePaths[dir][provider] \notin dirs'

\* how many operations a run makes: runs on the named providers are longer,
\* so that a Save can be followed by another Save and a Load
Budget(provider) == IF provider \in NamedProviders THEN MaxNamedOps ELSE MaxOps

\* the history keeps the events of the named providers only
Record(kind, provider, token) ==
    history' = IF provider \in NamedProviders
               THEN Append(history, [kind |-> kind, provider |-> provider,
                                     token |-> token])
               ELSE history

WriteFileKeepsOld(files, path, data) ==
    [q \in DOMAIN files \cup {path} |-> IF q \in DOMAIN files THEN files[q] ELSE data]

\* os.WriteFile(path, data, 0600): the file is created, or truncated and rewritten
WriteFile(files, path, data) ==
    [q \in DOMAIN files \cup {path} |-> IF q = path THEN data ELSE files[q]]

Save(provider, token) ==
    /\ ops < Budget(provider)
    /\ ops' = ops + 1
    /\ dirs' = dirs \cup RootDirs[fsRoot]
    /\ LET path == SavePaths[fsRoot][provider]
       IN IF CanWrite(fsRoot, provider)
          THEN /\ fs' = WriteFile(fs, path, Marshal(token))
               /\ lastOp' = [op |-> "save", provider |-> provider, path |-> path,
                              err |-> NoError, token |-> <<token>>]
               /\ Record("save", provider, <<token>>)
          ELSE /\ fs' = fs
               /\ lastOp' = [op |-> "save", provider |-> provider, path |-> path,
                              err |-> ErrWriteFile, token |-> <<token>>]
               /\ history' = history
    /\ UNCHANGED <<fsRoot, cbVars, flowVars, feedVars>>

\* os.ReadFile: the outcome of open and read on the path
ReadFile(path) ==
    IF path \in DOMAIN fs THEN "ok"
    ELSE IF path \in dirs THEN "EISDIR"
    ELSE "ENOENT"

IsNotExistAny(errno) == errno # "ok"

\* os.IsNotExist(err), oauth.go:232
IsNotExist(errno) == errno = "ENOENT"

LoadResult(path) ==
    IF ReadFile(path) # "ok"
    THEN IF IsNotExist(ReadFile(path))
         THEN [err |-> ErrTokenNotFound, token |-> << >>]
         ELSE [err |-> ErrReadToken, token |-> << >>]
    ELSE IF UnmarshalFails(fs[path])
         THEN [err |-> ErrUnmarshalToken, token |-> << >>]
         ELSE [err |-> NoError, token |-> <<Unmarshal(fs[path])>>]

Load(provider) ==
    /\ ops < Budget(provider)
    /\ ops' = ops + 1
    /\ LET path == LoadPaths[fsRoot][provider]
       IN lastOp' = [op |-> "load", provider |-> provider, path |-> path,
                     err |-> LoadResult(path).err, token |-> LoadResult(path).token]
    /\ UNCHANGED <<fsRoot, fs, dirs, history, cbVars, flowVars, feedVars>>

\* Another program leaves, where a provider's token is kept, a file that is
\* not a token ("file") or a directory ("dir"): what the error branches of
\* Load (oauth.go:231-241) are there for.
Foreign(provider, what) ==
    /\ ops < Budget(provider)
    /\ ops' = ops + 1
    /\ LET path == SavePaths[fsRoot][provider]
       IN /\ IF what = "file"
             THEN /\ path \notin dirs
                  /\ dirs' = dirs \cup RootDirs[fsRoot]
                  /\ fs' = WriteFile(fs, path, NotJSON)
             ELSE /\ path \notin DOMAIN fs
                  /\ dirs' = dirs \cup RootDirs[fsRoot] \cup {path}
                  /\ fs' = fs
          /\ lastOp' = [op |-> "foreign", provider |-> provider, path |-> path,
                         err |-> NoError, token |-> << >>]
    /\ Record("foreign", provider, << >>)
    /\ UNCHANGED <<fsRoot, cbVars, flowVars, feedVars>>

FsIdle ==
    /\ fs = << >>
    /\ dirs = {}
    /\ ops = 0
    /\ lastOp = NoOp
    /\ history = << >>

\* no Flow made yet
NoCall == [op |-> "none"]

FlowIdle ==
    /\ flow = << >>
    /\ flowOps = 0
    /\ lastCall = NoCall
    /\ browser = << >>

MaxSubs == 3      \* subscriptions FetchSubscriptions returns at most
MaxItems == 3     \* items an Aggregator is given at most, in a run of its own

Subs == 1..MaxSubs

\* aggregator.New(), no GetFeed call made yet, a zero Mutex and WaitGroup, and
\* no fetch goroutine started by `go func(sub)`
FeedIdle ==
    /\ items = << >>
    /\ feed = [called |-> FALSE]
    /\ task = [s \in Subs |-> [pc |-> "unborn", err |-> FALSE,
                               items |-> << >>, seen |-> << >>]]
    /\ mu = 0
    /\ wg = 0
    /\ cmd = [pc |-> "start", subs |-> 0, next |-> 1]

\* the callback server runs with a TokenStorage and a Flow that are not used
Init == CbInit /\ fsRoot \in {<<"/", "a">>} /\ FsIdle /\ FlowIdle /\ FeedIdle

\* a TokenStorage constructed on some root, no file saved yet
StorageInit == CbInit /\ fsRoot \in Roots /\ FsIdle /\ FlowIdle /\ FeedIdle

StorageNext ==
    \/ \E provider \in Providers, token \in Tokens : Save(provider, token)
    \/ \E provider \in Providers : Load(provider)

StorageSpec == StorageInit /\ [][StorageNext]_vars

\* a TokenStorage used for the named providers, on a root that other
\* programs can write to
NamedNext ==
    \/ \E provider \in NamedProviders, token \in Tokens : Save(provider, token)
    \/ \E provider \in NamedProviders : Load(provider)
    \/ \E provider \in NamedProviders, what \in {"file", "dir"} : Foreign(provider, what)

NamedSpec == StorageInit /\ [][NamedNext]_vars

(***************************************************************************)
(* Config and Flow (oauth.go:26-143).  Texts are sequences of pieces: a    *)
(* piece of plain text, or one of the characters that matter to a URL.     *)
(***************************************************************************)
ClientIDs == {<< >>, <<"id">>}
ClientSecrets == {<< >>, <<"secret">>, <<"other-secret">>}
AuthURLs == {<< >>, <<"https://auth.example/authorize">>,
             <<"https://auth.example/authorize", "?", "tenant", "=", "t">>,
             <<"https://auth.example/authorize", "#", "top">>}
ControlChar == "0x7F"
TokenURLs == {<<"https://token.example/token">>, <<"https://token.example/", ControlChar>>}
RedirectURLs == {<< >>, <<"http", ":", "/", "/", "localhost", ":", "8080", "/", "callback">>}
ScopeLists == {<< >>, <<"read">>, <<"read", "write">>}

Configs ==
    [ClientID : ClientIDs, ClientSecret : ClientSecrets, AuthURL : AuthURLs,
     TokenURL : TokenURLs, RedirectURL : RedirectURLs, Scopes : ScopeLists]

\* how many operations a run makes on a Config: the auth command makes three
\* on the Config of its provider
FlowBudget(c) == IF c \in Configs THEN MaxFlowOps ELSE MaxAuthOps

ValidateSecretFirst(c) ==
    IF c.ClientSecret = << >> THEN <<"client secret is required">>
    ELSE IF c.ClientID = << >> THEN <<"client ID is required">>
    ELSE IF c.RedirectURL = << >> THEN <<"redirect URL is required">>
    ELSE IF Len(c.Scopes) = 0 THEN <<"at least one scope is required">>
    ELSE NoError

\* Config.Validate, oauth.go:35-49
Validate(c) ==
    IF c.ClientID = << >> THEN <<"client ID is required">>
    ELSE IF c.ClientSecret = << >> THEN <<"client secret is required">>
    ELSE IF c.RedirectURL = << >> THEN <<"redirect URL is required">>
    ELSE IF Len(c.Scopes) = 0 THEN <<"at least one scope is required">>
    ELSE NoError

\* c.Validate() on a Config value: the receiver is a copy, nothing is written
CallValidate(c) ==
    /\ flow = << >>
    /\ flowOps < FlowBudget(c)
    /\ flowOps' = flowOps + 1
    /\ lastCall' = [op |-> "Validate", config |-> c, err |-> Validate(c)]
    /\ UNCHANGED <<flow, browser, cbVars, fsVars, feedVars>>

\* NewFlow(config), oauth.go:84-90: the Config is stored as given
NewFlow(c) ==
    /\ flow = << >>
    /\ flowOps < FlowBudget(c)
    /\ flowOps' = flowOps + 1
    /\ flow' = <<c>>
    /\ lastCall' = [op |-> "NewFlow", config |-> c]
    /\ UNCHANGED <<browser, cbVars, fsVars, feedVars>>

(***************************************************************************)
(* The token endpoint as f.httpClient.Do and io.ReadAll show it: the call  *)
(* fails, or a status and a body arrive, the body being read whole or not. *)
(***************************************************************************)
Statuses == {StatusOK, 201, StatusBadRequest}
\* the access and refresh tokens the endpoint issues together
Issued == {<<<<"tok1">>, <<"r1">>>>, <<<<"tok2">>, <<"r2">>>>}
TransportCauses == {<<"dial tcp: connect: connection refused">>}

\* {"access_token": a, "refresh_token": r, "token_type": "Bearer", "expires_in": 3600}
TokenBody(a, r) ==
    JSONObject(<<<<"access_token", JSONString(a)>>, <<"refresh_token", JSONString(r)>>,
                 <<"token_type", JSONString(<<"Bearer">>)>>,
                 <<"expires_in", JSONNumber(3600)>>>>)

\* the same without refresh_token, as a refresh grant is answered
NoRefreshBody(a) ==
    JSONObject(<<<<"access_token", JSONString(a)>>,
                 <<"token_type", JSONString(<<"Bearer">>)>>,
                 <<"expires_in", JSONNumber(3600)>>>>)

\* valid JSON whose expires_in is the string "3600"
StringExpiryBody(a) ==
    JSONObject(<<<<"access_token", JSONString(a)>>,
                 <<"expires_in", JSONString(<<"3600">>)>>>>)

ErrorBody == JSONObject(<<<<"error", JSONString(<<"invalid_grant">>)>>>>)

Bodies ==
    {TokenBody(t[1], t[2]) : t \in Issued}
    \cup {NoRefreshBody(<<"tok1">>), StringExpiryBody(<<"tok1">>)}
    \cup {JSONObject(<< >>), ErrorBody, NotJSON}
    \cup {JSONObject(<<<<"expires_in", JSONString(<<"3600">>)>>>>)}

\* a body that was not read whole is kept as NotJSON: it is never decoded
Responses ==
    [transport : {"ok"}, cause : {NoError}, status : Statuses, bodyRead : {TRUE},
     body : Bodies]
    \cup [transport : {"ok"}, cause : {NoError}, status : Statuses,
          bodyRead : {FALSE}, body : {NotJSON}]
    \cup [transport : {"error"}, cause : TransportCauses, status : {0},
          bodyRead : {FALSE}, body : {NotJSON}]

\* the error of json.Unmarshal(body, &token)
UnmarshalError(data) ==
    IF ~data.json
    THEN <<"invalid character '<' looking for beginning of value">>
    ELSE LET key == CHOOSE k \in {"access_token", "refresh_token", "token_type",
                                  "expires_in"} :
                        ~Fits(data, k, IF k = "expires_in" THEN "number" ELSE "string")
         IN <<"json: cannot unmarshal ", Member(data, key).kind,
              " into Go struct field Token.", key>>

\* http.NewRequestWithContext fails on a URL that does not parse
CreateRequestFails(c) == \E i \in 1..Len(c.TokenURL) : c.TokenURL[i] = ControlChar

URLErrorWithForm(c, cause) ==
    <<"Post ", Quote>> \o c.TokenURL \o <<"?client_secret=">> \o c.ClientSecret
        \o <<Quote, ": ">> \o cause

\* the *url.Error of a failed Do: the method, the URL and the cause
URLError(c, cause) == <<"Post ", Quote>> \o c.TokenURL \o <<Quote, ": ">> \o cause

PostFormStatusBeforeRead(c, resp, doMsg, statusMsg) ==
    IF CreateRequestFails(c)
    THEN [sent |-> FALSE, token |-> << >>,
          err |-> <<"failed to create request: ", "parse ", Quote>> \o c.TokenURL
                    \o <<Quote, ": net/url: invalid control character in URL">>]
    ELSE IF resp.transport # "ok"
    THEN [sent |-> TRUE, token |-> << >>, err |-> <<doMsg>> \o URLError(c, resp.cause)]
    ELSE IF resp.status # StatusOK /\ resp.status # 201
    THEN [sent |-> TRUE, token |-> << >>, err |-> <<statusMsg>> \o Itoa(resp.status)]
    ELSE IF ~resp.bodyRead
    THEN [sent |-> TRUE, token |-> << >>,
          err |-> <<"failed to read response: ", "unexpected EOF">>]
    ELSE IF UnmarshalFails(resp.body)
    THEN [sent |-> TRUE, token |-> << >>,
          err |-> <<"failed to parse response: ">> \o UnmarshalError(resp.body)]
    ELSE [sent |-> TRUE, token |-> <<Unmarshal(resp.body)>>, err |-> NoError]

PostFormValidates(c, resp, doMsg, statusMsg) ==
    IF CreateRequestFails(c)
    THEN [sent |-> FALSE, token |-> << >>,
          err |-> <<"failed to create request: ", "parse ", Quote>> \o c.TokenURL
                    \o <<Quote, ": net/url: invalid control character in URL">>]
    ELSE IF resp.transport # "ok"
    THEN [sent |-> TRUE, token |-> << >>, err |-> <<doMsg>> \o URLError(c, resp.cause)]
    ELSE IF ~resp.bodyRead
    THEN [sent |-> TRUE, token |-> << >>,
          err |-> <<"failed to read response: ", "unexpected EOF">>]
    ELSE IF resp.status # StatusOK
    THEN [sent |-> TRUE, token |-> << >>, err |-> <<statusMsg>> \o Itoa(resp.status)]
    ELSE IF UnmarshalFails(resp.body)
    THEN [sent |-> TRUE, token |-> << >>,
          err |-> <<"failed to parse response: ">> \o UnmarshalError(resp.body)]
    ELSE IF Unmarshal(resp.body).AccessToken = << >>
    THEN [sent |-> TRUE, token |-> << >>, err |-> <<"response has no access token">>]
    ELSE [sent |-> TRUE, token |-> <<Unmarshal(resp.body)>>, err |-> NoError]

\* oauth.go:116-142, the part ExchangeCode and RefreshAccessToken have in
\* common: make the request, Do, read the body, test the status, decode
PostForm(c, resp, doMsg, statusMsg) ==
    IF CreateRequestFails(c)
    THEN [sent |-> FALSE, token |-> << >>,
          err |-> <<"failed to create request: ", "parse ", Quote>> \o c.TokenURL
                    \o <<Quote, ": net/url: invalid control character in URL">>]
    ELSE IF resp.transport # "ok"
    THEN [sent |-> TRUE, token |-> << >>, err |-> <<doMsg>> \o URLError(c, resp.cause)]
    ELSE IF ~resp.bodyRead
    THEN [sent |-> TRUE, token |-> << >>,
          err |-> <<"failed to read response: ", "unexpected EOF">>]
    ELSE IF resp.status # StatusOK
    THEN [sent |-> TRUE, token |-> << >>, err |-> <<statusMsg>> \o Itoa(resp.status)]
    ELSE IF UnmarshalFails(resp.body)
    THEN [sent |-> TRUE, token |-> << >>,
          err |-> <<"failed to parse response: ">> \o UnmarshalError(resp.body)]
    ELSE [sent |-> TRUE, token |-> <<Unmarshal(resp.body)>>, err |-> NoError]

AuthCodes == {<<"auth-xyz">>}
RefreshTokens == {<<"refresh-abc">>, <<"refresh-def">>}

\* url.Values of ExchangeCode, oauth.go:109-114
ExchangeForm(c, code) ==
    [code |-> code, client_id |-> c.ClientID, client_secret |-> c.ClientSecret,
     redirect_uri |-> c.RedirectURL, grant_type |-> <<"authorization_code">>]

\* url.Values of RefreshAccessToken
RefreshFormWithRedirect(c, refreshToken) ==
    [refresh_token |-> refreshToken, client_id |-> c.ClientID,
     client_secret |-> c.ClientSecret, redirect_uri |-> c.RedirectURL,
     grant_type |-> <<"refresh_token">>]

RefreshForm(c, refreshToken) ==
    [refresh_token |-> refreshToken, client_id |-> c.ClientID,
     client_secret |-> c.ClientSecret, grant_type |-> <<"refresh_token">>]

ExchangeResult(c, resp) ==
    PostForm(c, resp, "failed to exchange code: ", "token exchange failed: status ")

RefreshResult(c, resp) ==
    PostForm(c, resp, "failed to refresh token: ", "token refresh failed: status ")

\* Flow.ExchangeCode, oauth.go:108-143
ExchangeCode(code, resp) ==
    /\ flow # << >>
    /\ flowOps < FlowBudget(flow[1])
    /\ flowOps' = flowOps + 1
    /\ lastCall' = [op |-> "ExchangeCode", arg |-> code, url |-> flow[1].TokenURL,
                    form |-> ExchangeForm(flow[1], code), resp |-> resp,
                    sent |-> ExchangeResult(flow[1], resp).sent,
                    token |-> ExchangeResult(flow[1], resp).token,
                    err |-> ExchangeResult(flow[1], resp).err]
    /\ UNCHANGED <<flow, browser, cbVars, fsVars, feedVars>>

\* Flow.RefreshAccessToken
RefreshAccessToken(refreshToken, resp) ==
    /\ flow # << >>
    /\ flowOps < FlowBudget(flow[1])
    /\ flowOps' = flowOps + 1
    /\ lastCall' = [op |-> "RefreshAccessToken", arg |-> refreshToken,
                    url |-> flow[1].TokenURL,
                    form |-> RefreshForm(flow[1], refreshToken), resp |-> resp,
                    sent |-> RefreshResult(flow[1], resp).sent,
                    token |-> RefreshResult(flow[1], resp).token,
                    err |-> RefreshResult(flow[1], resp).err]
    /\ UNCHANGED <<flow, browser, cbVars, fsVars, feedVars>>

(***************************************************************************)
(* Flow.GenerateAuthURL, oauth.go:92-106.  Strings are sequences of pieces *)
(* in which every URL delimiter is a piece of its own.                     *)
(***************************************************************************)
\* what rand.Read leaves in the 16 bytes of stateBytes (all zero included)
StateBytes ==
    {[i \in 1..16 |-> 0], [i \in 1..16 |-> (i * 37) % 256], [i \in 1..16 |-> 255]}

HexDigits == <<"0", "1", "2", "3", "4", "5", "6", "7",
               "8", "9", "a", "b", "c", "d", "e", "f">>

\* hex.EncodeToString: two digits for every byte, high nibble first
RECURSIVE EncodeToString(_)
EncodeToString(bytes) ==
    IF bytes = << >> THEN << >>
    ELSE <<HexDigits[(Head(bytes) \div 16) + 1], HexDigits[(Head(bytes) % 16) + 1]>>
             \o EncodeToString(Tail(bytes))

\* strings.Join(elems, sep)
RECURSIVE JoinStrings(_, _)
JoinStrings(elems, sep) ==
    IF elems = << >> THEN << >>
    ELSE IF Len(elems) = 1 THEN <<Head(elems)>>
    ELSE <<Head(elems), sep>> \o JoinStrings(Tail(elems), sep)

\* url.QueryEscape, piece by piece: a space becomes "+", a delimiter %XX
QueryEscape(str) ==
    LET EscapePiece(p) ==
            CASE p = " " -> "+"
              [] p = "+" -> "%2B"
              [] p = "?" -> "%3F"
              [] p = "#" -> "%23"
              [] p = "&" -> "%26"
              [] p = "=" -> "%3D"
              [] p = "/" -> "%2F"
              [] p = ":" -> "%3A"
              [] OTHER -> p
    IN [i \in 1..Len(str) |-> EscapePiece(str[i])]

\* url.Values.Encode over the six parameters set at oauth.go:97-103:
\* key=value pairs in the sorted order of the keys, joined by "&"
AuthParams(c, state) ==
    <<"access_type", "=", "offline", "&", "client_id", "=">> \o QueryEscape(c.ClientID)
        \o <<"&", "redirect_uri", "=">> \o QueryEscape(c.RedirectURL)
        \o <<"&", "response_type", "=", "code", "&", "scope", "=">>
        \o QueryEscape(JoinStrings(c.Scopes, " "))
        \o <<"&", "state", "=">> \o QueryEscape(state)

\* fmt.Sprintf("%s?%s", f.config.AuthURL, params.Encode()): "?" is written
\* whatever the AuthURL holds
AuthURL(c, state) == c.AuthURL \o <<"?">> \o AuthParams(c, state)

GenerateAuthURL(stateBytes) ==
    /\ flow # << >>
    /\ flowOps < FlowBudget(flow[1])
    /\ flowOps' = flowOps + 1
    /\ lastCall' = [op |-> "GenerateAuthURL", bytes |-> stateBytes,
                    state |-> EncodeToString(stateBytes),
                    url |-> AuthURL(flow[1], EncodeToString(stateBytes)),
                    sent |-> FALSE]
    /\ UNCHANGED <<flow, browser, cbVars, fsVars, feedVars>>

FlowNext ==
    \/ \E c \in Configs : CallValidate(c)
    \/ \E c \in Configs : NewFlow(c)
    \/ \E stateBytes \in StateBytes : GenerateAuthURL(stateBytes)
    \/ \E code \in AuthCodes, resp \in Responses : ExchangeCode(code, resp)
    \/ \E refreshToken \in RefreshTokens, resp \in Responses :
            RefreshAccessToken(refreshToken, resp)

FlowSpec == Init /\ [][FlowNext]_vars

Spec == Init /\ [][Next]_vars

\* the timer always fires, and the caller's goroutine and every handler
\* goroutine are always scheduled
FairSpec ==
    /\ Init
    /\ [][Next]_vars
    /\ WF_vars(Expire)
    /\ WF_vars(Select)
    /\ WF_vars(Return)
    /\ \A r \in Reqs : WF_vars(Publish(r))

(***************************************************************************)
(* The auth command, newAuthCmd (part_010:63-104): the steps of its RunE   *)
(* in program order, every `if err != nil { return ... }` being the guard  *)
(* of the step after it.  While the command waits in WaitForCallback the   *)
(* callback server, its handlers and the timer run as above.               *)
(***************************************************************************)
\* oauth.YouTubeOAuthConfig, oauth.go:51-60
YouTubeOAuthConfig(clientID, clientSecret, redirectURL) ==
    [ClientID |-> clientID, ClientSecret |-> clientSecret,
     AuthURL |-> <<"https://accounts.google.com/o/oauth2/v2/auth">>,
     TokenURL |-> <<"https://oauth2.googleapis.com/token">>,
     RedirectURL |-> redirectURL,
     Scopes |-> <<"https://www.googleapis.com/auth/youtube.readonly">>]

\* the command returns "missing credentials" unless both are set; otherwise
\* redirectURL := fmt.Sprintf("http://localhost:%d/callback", port) and
\* flow := oauth.NewFlow(config)
AuthNewFlow(clientID, clientSecret) ==
    /\ clientID # << >> /\ clientSecret # << >>
    /\ lastCall = NoCall
    /\ NewFlow(YouTubeOAuthConfig(clientID, clientSecret,
                   <<"http", ":", "/", "/", "localhost", ":">> \o Itoa(port)
                       \o <<"/", "callback">>))

\* authURL, state := flow.GenerateAuthURL()
AuthGenerateURL(stateBytes) ==
    /\ lastCall.op = "NewFlow"
    /\ GenerateAuthURL(stateBytes)

\* browser.Open(authURL); when it fails the URL is printed for the user to
\* visit, and the command goes on either way
AuthOpenBrowser ==
    /\ lastCall.op = "GenerateAuthURL"
    /\ browser = << >>
    /\ browser' = <<lastCall.url>>
    /\ UNCHANGED <<flow, flowOps, lastCall, cbVars, fsVars, feedVars>>

\* a string of the Flow model, a sequence of pieces, as the one text the
\* callback server compares
RECURSIVE Text(_)
Text(str) == IF str = << >> THEN "" ELSE Head(str) \o Text(Tail(str))

\* callbackServer.WaitForCallback(ctx, state, 5*time.Minute)
AuthWait ==
    /\ browser # << >>
    /\ lastCall.op = "GenerateAuthURL"
    /\ call = 0
    /\ Call(Text(lastCall.state))

CanExchangeAnyResult == wpc = "returned" /\ call >= 1

\* code, err := WaitForCallback(...); if err != nil { return }
CanExchange == wpc = "returned" /\ call >= 1 /\ ret.err = NoError

\* token, err := flow.ExchangeCode(ctx, code)
AuthExchange(resp) ==
    /\ CanExchange
    /\ lastCall.op = "GenerateAuthURL"
    /\ ExchangeCode(<<ret.code>>, resp)

\* if err != nil { return }; storage.Save("youtube", token)
AuthSave ==
    /\ lastCall.op = "ExchangeCode"
    /\ lastCall.err = NoError
    /\ lastOp.op # "save"
    /\ Save(<<"youtube">>, lastCall.token[1])

\* what the command finds when it starts: the port held by another process,
\* a directory where the token file is to be written
AuthNext ==
    \/ lastCall = NoCall /\ OtherBind
    \/ lastCall = NoCall /\ lastOp.op = "none" /\ Foreign(<<"youtube">>, "dir")
    \/ \E clientID \in ClientIDs, clientSecret \in {<< >>, <<"secret">>} :
            AuthNewFlow(clientID, clientSecret)
    \/ \E stateBytes \in StateBytes : AuthGenerateURL(stateBytes)
    \/ AuthOpenBrowser
    \/ AuthWait
    \/ \E k \in Calls : ServeStart(k)
    \/ \E r \in Reqs, state \in {expected, "attacker-state"}, code \in Codes :
          ServeRequest(r, CallbackPath, state, code)
    \/ \E r \in Reqs : Publish(r)
    \/ Expire
    \/ Select
    \/ Return
    \/ \E resp \in Responses : AuthExchange(resp)
    \/ AuthSave

AuthSpec == Init /\ [][AuthNext]_vars

(***************************************************************************)
(* Aggregator: AddItems and GetFeed.                                       *)
(***************************************************************************)

\* a few FeedItems: "a" and "b" were published at the same time.  A
\* PublishedAt is a number of hours; 0 stands for the zero time.Time.
AggItems ==
    { [ID |-> "a", Source |-> "youtube", Type |-> "video", PublishedAt |-> 3],
      [ID |-> "b", Source |-> "youtube", Type |-> "video", PublishedAt |-> 3],
      [ID |-> "c", Source |-> "linkedin", Type |-> "post", PublishedAt |-> 2],
      [ID |-> "d", Source |-> "youtube", Type |-> "like", PublishedAt |-> 1] }

\* the slices of one or two items an AddItems call is given
Batches ==
    {<<x>> : x \in AggItems} \cup {<<x, y>> : x \in AggItems, y \in AggItems}

\* the FeedOptions a GetFeed call is given: any Limit, with no filter, one
\* filter or all four
FeedOptionSet ==
    LET set(on) == IF on THEN 1 ELSE 0
        filters(o) == set(o.Since # 0) + set(o.Until # 0)
                          + set(o.Sources # << >>) + set(o.Types # << >>)
    IN  {o \in [Limit : {0 - 1, 0, 1, 2}, Since : {0, 2}, Until : {0, 2},
                Sources : {<< >>, <<"youtube">>}, Types : {<< >>, <<"video">>}] :
            filters(o) \in {0, 1, 4}}

\* a.items = append(a.items, items...)
AddItems(batch) == items' = items \o batch

\* containsSource and containsType
ContainsItem(list, x) == \E i \in DOMAIN list : list[i] = x

\* the item is not skipped by one of the four `continue`s of GetFeed's loop
Passes(item, opts) ==
    /\ ~(Len(opts.Sources) > 0 /\ ~ContainsItem(opts.Sources, item.Source))
    /\ ~(Len(opts.Types) > 0 /\ ~ContainsItem(opts.Types, item.Type))
    /\ ~(opts.Since # 0 /\ item.PublishedAt < opts.Since)
    /\ ~(opts.Until # 0 /\ item.PublishedAt > opts.Until)

\* the mutant of Less: oldest first
LessOldestFirst(x, y) == x.PublishedAt < y.PublishedAt

\* the less function GetFeed hands to sort.Slice
Less(x, y) == x.PublishedAt > y.PublishedAt

\* what sort.Slice may leave in the slice: sort.Slice is not stable, so every
\* arrangement in which no element is Less than one before it
RECURSIVE SortSlice(_)
SortSlice(result) ==
    IF result = << >> THEN {<< >>}
    ELSE LET first == {i \in DOMAIN result :
                          \A j \in DOMAIN result : ~Less(result[j], result[i])}
             Without(i) == SubSeq(result, 1, i - 1)
                               \o SubSeq(result, i + 1, Len(result))
         IN  UNION {{<<result[i]>> \o rest : rest \in SortSlice(Without(i))} :
                        i \in first}

\* GetFeed: filter into a new slice, sort it, cut it at Limit
GetFeed(opts) ==
    /\ \E sorted \in SortSlice(SelectSeq(items, LAMBDA item : Passes(item, opts))) :
          feed' = [called |-> TRUE, opts |-> opts,
                   result |-> IF opts.Limit > 0 /\ Len(sorted) > opts.Limit
                              THEN SubSeq(sorted, 1, opts.Limit)
                              ELSE sorted]
    /\ UNCHANGED items

\* an Aggregator used by one goroutine: any AddItems and GetFeed calls
AggNext ==
    \/ \E batch \in Batches :
          /\ Len(items) + Len(batch) <= MaxItems
          /\ AddItems(batch)
          /\ UNCHANGED <<feed, task, mu, wg, cmd, cbVars, fsVars, flowVars>>
    \/ \E opts \in FeedOptionSet :
          /\ GetFeed(opts)
          /\ UNCHANGED <<task, mu, wg, cmd, cbVars, fsVars, flowVars>>

AggSpec == Init /\ [][AggNext]_vars

(***************************************************************************)
(* The feed command: one fetch goroutine per subscription, then GetFeed.   *)
(***************************************************************************)

\* what FetchRecentVideos may return for the subscription, as the items the
\* goroutine builds from it: an error, no video, one video or two
FetchOutcomes(s) ==
    LET item(n) == [ID |-> ("video" \o ToString(s)) \o ToString(n),
                    Source |-> "youtube", Type |-> "video", PublishedAt |-> n]
    IN  {[err |-> TRUE, items |-> << >>]}
            \cup {[err |-> FALSE, items |-> v] :
                     v \in {<< >>, <<item(1)>>, <<item(2), item(1)>>}}

\* the mutant of CanLock: a mutex that excludes nobody
CanLockAlways == TRUE

\* mu.Lock() returns only when no goroutine holds the mutex
CanLock == mu = 0

\* the goroutine of one subscription, step by step.  The append of AddItems
\* reads a.items and then stores the longer slice.
FetchTask(s) ==
    /\ \/ /\ task[s].pc = "fetch"
          /\ \E out \in FetchOutcomes(s) :
                task' = [task EXCEPT ![s].pc = IF out.err THEN "exit" ELSE "lock",
                                     ![s].err = out.err,
                                     ![s].items = out.items]
          /\ UNCHANGED <<items, mu, wg>>
       \/ /\ task[s].pc = "lock"
          /\ CanLock
          /\ mu' = s
          /\ task' = [task EXCEPT ![s].pc = "read"]
          /\ UNCHANGED <<items, wg>>
       \/ /\ task[s].pc = "read"
          /\ task' = [task EXCEPT ![s].pc = "write", ![s].seen = items]
          /\ UNCHANGED <<items, mu, wg>>
       \/ /\ task[s].pc = "write"
          /\ items' = task[s].seen \o task[s].items
          /\ task' = [task EXCEPT ![s].pc = "unlock"]
          /\ UNCHANGED <<mu, wg>>
       \/ /\ task[s].pc = "unlock"
          /\ mu' = 0
          /\ task' = [task EXCEPT ![s].pc = "exit"]
          /\ UNCHANGED <<items, wg>>
       \/ /\ task[s].pc = "exit"
          /\ wg' = wg - 1
          /\ task' = [task EXCEPT ![s].pc = "done"]
          /\ UNCHANGED <<items, mu>>
    /\ UNCHANGED <<feed, cmd, cbVars, fsVars, flowVars>>

\* the command's own goroutine: FetchSubscriptions, the loop that starts the
\* goroutines, wg.Wait() and GetFeed with the --limit flag
FeedCmd ==
    \/ /\ cmd.pc = "start"
       /\ \/ cmd' = [cmd EXCEPT !.pc = "failed"]
          \/ \E n \in 0..MaxSubs : cmd' = [cmd EXCEPT !.pc = "loop", !.subs = n]
       /\ UNCHANGED <<items, feed, task, mu, wg, cbVars, fsVars, flowVars>>
    \/ /\ cmd.pc = "loop"
       /\ cmd.next <= cmd.subs
       /\ wg' = wg + 1
       /\ task' = [task EXCEPT ![cmd.next].pc = "fetch"]
       /\ cmd' = [cmd EXCEPT !.next = cmd.next + 1]
       /\ UNCHANGED <<items, feed, mu, cbVars, fsVars, flowVars>>
    \/ /\ cmd.pc = "loop"
       /\ cmd.next > cmd.subs
       /\ wg = 0
       /\ cmd' = [cmd EXCEPT !.pc = "feed"]
       /\ UNCHANGED <<items, feed, task, mu, wg, cbVars, fsVars, flowVars>>
    \/ /\ cmd.pc = "feed"
       /\ \E limit \in {0, 1, 20} :
             GetFeed([Limit |-> limit, Since |-> 0, Until |-> 0,
                      Sources |-> << >>, Types |-> << >>])
       /\ cmd' = [cmd EXCEPT !.pc = "done"]
       /\ UNCHANGED <<task, mu, wg, cbVars, fsVars, flowVars>>

FeedNext == FeedCmd \/ \E s \in Subs : FetchTask(s)

FeedSpec == Init /\ [][FeedNext]_vars

(***************************************************************************)
(* Vocabulary of the properties.                                           *)
(***************************************************************************)
Returned == wpc = "returned" /\ call >= 1
BindSucceeded == call >= 1 /\ serve[call] # "none"
Waiting == wpc \in {"running", "parked", "woken"}
\* the requests that reached the callback path during invocation k
Handled(k) == {r \in Reqs : reqs[r].call = k /\ reqs[r].path = CallbackPath}
Published(k) == {r \in Handled(k) : reqs[r].pc = "done"}
CtxErrors == {DeadlineExceeded, Canceled}
\* timeoutCtx was not done when the caller took its outcome
NotTimedOut == ctxErr = NoError

(***************************************************************************)
(* C1: when the only request that reaches the callback path during an      *)
(* invocation carries a state other than expectedState (whatever its       *)
(* code), the request is answered 400 and the invocation returns           *)
(* ErrInvalidState (the timeout context not being done when the caller     *)
(* takes its outcome); in no case does it return the request's code.       *)
(***************************************************************************)
C1_InvalidStateRejected ==
    \A r \in Reqs :
        (Handled(call) = {r} /\ reqs[r].state # expected) =>
            /\ reqs[r].status = StatusBadRequest
            /\ Returned => /\ ret.code = ""
                           /\ ret.err \in {ErrInvalidState} \cup CtxErrors
                           /\ NotTimedOut => ret.err = ErrInvalidState

C1_Witness ==
    \E r \in Reqs :
        /\ Handled(call) = {r} /\ reqs[r].state # expected
        /\ reqs[r].code = "attacker-code"
        /\ Returned /\ ret.err = ErrInvalidState

(***************************************************************************)
(* C2: when exactly one request reaches the callback path during an        *)
(* invocation, with state equal to expectedState and a non-empty code, and *)
(* the caller takes its outcome before the timeout context is done, the    *)
(* request is answered 200 and the invocation returns that code and no     *)
(* error.                                                                  *)
(***************************************************************************)
C2_MatchingCodeReturned ==
    \A r \in Reqs :
        (Handled(call) = {r} /\ reqs[r].state = expected /\ reqs[r].code # "") =>
            /\ reqs[r].status = StatusOK
            /\ (Returned /\ NotTimedOut) =>
                   ret = [code |-> reqs[r].code, err |-> NoError]

C2_Witness ==
    \E r \in Reqs :
        /\ Handled(call) = {r} /\ reqs[r].state = expected
        /\ Returned /\ NotTimedOut
        /\ ret.code = "auth-xyz" /\ reqs[r].code = "auth-xyz"

(***************************************************************************)
(* C3: within one invocation at most one request is answered by the        *)
(* callback handler and at most one terminal message is published.         *)
(***************************************************************************)
C3_SingleShot ==
    \A k \in Calls :
        /\ Cardinality({r \in Handled(k) : reqs[r].status # 0}) <= 1
        /\ Cardinality(Published(k)) <= 1

(***************************************************************************)
(* C4: every invocation that binds its port returns, with exactly one of   *)
(* a code, a handler failure, or the context's error; never a code         *)
(* together with an error; and it does not stay blocked once the timeout   *)
(* context is done.                                                        *)
(***************************************************************************)
OneOutcome ==
    \/ ret.code # "" /\ ret.err = NoError
    \/ ret.code = "" /\ ret.err \in {ErrInvalidState, ErrMissingCode}
    \/ ret.code = "" /\ ret.err \in CtxErrors /\ ret.err = ctxErr

C4_ExactlyOneOutcome ==
    /\ []((Returned /\ BindSucceeded) => OneOutcome)
    /\ (Waiting ~> Returned)
    /\ ((Waiting /\ ctxErr # NoError) ~> Returned)

C4_Witness ==
    /\ Returned /\ BindSucceeded
    /\ ret.err = DeadlineExceeded
    /\ \E r \in Published(call) : reqs[r].send = "code"

(***************************************************************************)
(* C5: once an invocation that bound the port has returned, the port is    *)
(* no longer bound by its listener.                                        *)
(***************************************************************************)
C5_PortUnboundAfterReturn ==
    (Returned /\ BindSucceeded) => portOwner # Listener(call)

(***************************************************************************)
(* C6: an invocation during which no request arrives returns a timeout     *)
(* failure, and the next invocation on the same port (no other process     *)
(* holding it) binds.                                                      *)
(***************************************************************************)
C6_RebindAfterTimeout ==
    [][(/\ Returned /\ BindSucceeded
        /\ \A r \in Reqs : reqs[r].call # call
        /\ ret.err \in CtxErrors
        /\ portOwner # Other
        /\ call' = call + 1)
       => wpc' = "running"]_vars

(***************************************************************************)
(* C7: when the port is already bound the invocation returns at once an    *)
(* error whose message contains the port number: no serve task is          *)
(* started, the timeout context is not armed and the select is not         *)
(* entered.                                                                *)
(***************************************************************************)
C7_BindFailureImmediate ==
    [][(call' = call + 1 /\ portOwner # Free) =>
          /\ wpc' = "returned"
          /\ ret'.code = ""
          /\ Contains(ret'.err, Itoa(port))
          /\ ret'.err \notin {NoError, ErrInvalidState, ErrMissingCode} \cup CtxErrors
          /\ serve'[call'] = "none"
          /\ ctxErr' = NoError
          /\ UNCHANGED <<portOwner, serve>>]_vars

C7_Witness ==
    /\ Returned /\ ~BindSucceeded
    /\ portOwner = Other
    /\ Contains(ret.err, <<"8", "0", "8", "0">>)

(***************************************************************************)
(* C8: the handler validates state before it looks at code: a request      *)
(* whose state differs from expectedState yields the invalid-state         *)
(* failure, never the missing-code failure, also when its code is empty,   *)
(* and code is not read for it.                                            *)
(***************************************************************************)
C8_StateBeforeCode ==
    \A r \in Handled(call) :
        reqs[r].state # expected =>
            /\ reqs[r].msg = ErrInvalidState
            /\ reqs[r].send = "err"
            /\ ~reqs[r].codeRead
            /\ (Returned /\ Handled(call) = {r}) => ret.err # ErrMissingCode

C8_Witness ==
    \E r \in Handled(call) :
        /\ reqs[r].state # expected /\ reqs[r].code = ""
        /\ Returned /\ ret.err = ErrInvalidState

(***************************************************************************)
(* C9: a request with the expected state and an empty code is answered     *)
(* 400 and, being the only one, makes the invocation return the            *)
(* missing-code failure (the timeout context not being done); the          *)
(* invalid-state, missing-code and context errors are pairwise different   *)
(* values, and each is returned only for its own cause.                    *)
(***************************************************************************)
C9_MissingCodeDistinct ==
    /\ \A r \in Reqs :
          (Handled(call) = {r} /\ reqs[r].state = expected /\ reqs[r].code = "") =>
              /\ reqs[r].status = StatusBadRequest
              /\ (Returned /\ NotTimedOut) => ret = [code |-> "", err |-> ErrMissingCode]
    /\ Cardinality({ErrInvalidState, ErrMissingCode, DeadlineExceeded, Canceled}) = 4
    /\ (Returned /\ BindSucceeded) =>
          /\ ret.err = ErrInvalidState =>
                \E r \in Handled(call) : reqs[r].state # expected
          /\ ret.err = ErrMissingCode =>
                \E r \in Handled(call) : reqs[r].state = expected /\ reqs[r].code = ""
          /\ ret.err \in CtxErrors => ctxErr = ret.err

C9_Witness ==
    \E r \in Reqs :
        /\ Handled(call) = {r} /\ reqs[r].state = expected /\ reqs[r].code = ""
        /\ Returned /\ ret.err = ErrMissingCode

(***************************************************************************)
(* C10: for every provider string (parent-directory segments, separators,  *)
(* absolute paths, "..", "" included) Save writes only to a direct child   *)
(* of the storage root, named <base name of provider>_token.json; no file  *)
(* outside the root is created or modified, and Load reads from the same   *)
(* location.                                                               *)
(***************************************************************************)
FileName(path) == SubSeq(path, LastSep(path) + 1, Len(path))

DirectChild(path, root) ==
    /\ Dir(path) = Clean(root)
    /\ path # Clean(root)
    /\ FileName(path) \notin {<< >>, Dot, DotDot}

Changed(path) ==
    \/ path \in DOMAIN fs' /\ path \notin DOMAIN fs
    \/ path \in DOMAIN fs /\ path \notin DOMAIN fs'
    \/ path \in DOMAIN fs /\ path \in DOMAIN fs' /\ fs'[path] # fs[path]

\* the path of a provider is a direct child of the root, it is named by the
\* provider's base name, and Load reads where Save writes
ConfinedAndNamed(dir, provider, name) ==
    LET path == SavePath(dir, provider)
    IN /\ DirectChild(path, dir)
       /\ FileName(path) = name \o TokenSuffix
       /\ LoadPath(dir, provider) = path

\* the file name as the claim states it
NamedByBase ==
    [dir \in Roots |-> [provider \in Providers |->
        ConfinedAndNamed(dir, provider, Base(provider))]]

\* the same, a provider made of separators only being stored as _token.json
NamedByBaseOrEmpty ==
    [dir \in Roots |-> [provider \in Providers |->
        ConfinedAndNamed(dir, provider,
            IF Base(provider) = <<Sep>> THEN << >> ELSE Base(provider))]]

OnlyTouches(path) ==
    \A q \in DOMAIN fs \cup DOMAIN fs' : Changed(q) => q = path

\* C10 as stated: every Save and Load goes to the direct child of the root
\* named <base name of provider>_token.json, and touches no other file
C10_NamedByBase ==
    [][lastOp'.op \in {"save", "load"} =>
          /\ NamedByBase[fsRoot][lastOp'.provider]
          /\ OnlyTouches(lastOp'.path)]_vars

SaveStaysInRoot ==
    /\ NamedByBaseOrEmpty[fsRoot][lastOp'.provider]
    /\ lastOp'.path = SavePaths[fsRoot][lastOp'.provider]
    /\ lastOp'.err = NoError => lastOp'.path \in DOMAIN fs'
    /\ OnlyTouches(lastOp'.path)

LoadReadsInRoot ==
    /\ NamedByBaseOrEmpty[fsRoot][lastOp'.provider]
    /\ lastOp'.path = SavePaths[fsRoot][lastOp'.provider]
    /\ fs' = fs

\* C10 amended: every Save writes, and every Load reads, the direct child of
\* the root named <base name of provider>_token.json (_token.json when the
\* provider is made of separators only), and no other file is touched
C10_SaveStaysInRoot ==
    [][/\ (lastOp'.op = "save") => SaveStaysInRoot
       /\ (lastOp'.op = "load") => LoadReadsInRoot]_vars

C10_Witness ==
    /\ lastOp.op = "save"
    /\ lastOp.provider = <<".", ".", "/", "a">>
    /\ fsRoot = <<"/", "a">>
    /\ lastOp.path = <<"/", "a", "/", "a", "_token.json">>
    /\ lastOp.path \in DOMAIN fs

(***************************************************************************)
(* C11: for every provider name and every Token (an empty refresh token    *)
(* and a zero expires-in included), a successful Save(provider, token)     *)
(* followed by Load(provider) on the same root returns a Token equal to    *)
(* the saved one in all four fields.                                       *)
(***************************************************************************)
ValidUTF8(s) == \A i \in 1..Len(s) : s[i] # InvalidByte

ValidToken(token) ==
    /\ ValidUTF8(token.AccessToken)
    /\ ValidUTF8(token.RefreshToken)
    /\ ValidUTF8(token.TokenType)

ToValidUTF8(s) ==
    [i \in 1..Len(s) |-> IF s[i] = InvalidByte THEN ReplacementRune ELSE s[i]]

\* a Load step that directly follows a successful Save of the same provider
SaveThenLoad ==
    /\ lastOp.op = "save"
    /\ lastOp.err = NoError
    /\ ops' = ops + 1
    /\ lastOp'.op = "load"
    /\ lastOp'.provider = lastOp.provider

\* C11 as stated: the loaded Token equals the saved one, whatever the Token
C11_RoundTrip ==
    [][SaveThenLoad => /\ lastOp'.err = NoError
                       /\ lastOp'.token = lastOp.token]_vars

\* C11 amended: the loaded Token equals the saved one when the saved strings
\* are valid UTF-8; otherwise it is the saved one with every invalid byte
\* replaced by U+FFFD
C11_RoundTripValidUTF8 ==
    [][SaveThenLoad =>
          /\ lastOp'.err = NoError
          /\ ValidToken(lastOp.token[1]) => lastOp'.token = lastOp.token
          /\ lastOp'.token[1].AccessToken = ToValidUTF8(lastOp.token[1].AccessToken)
          /\ lastOp'.token[1].RefreshToken = ToValidUTF8(lastOp.token[1].RefreshToken)
          /\ lastOp'.token[1].TokenType = ToValidUTF8(lastOp.token[1].TokenType)
          /\ lastOp'.token[1].ExpiresIn = lastOp.token[1].ExpiresIn]_vars

C11_Witness ==
    /\ lastOp.op = "load"
    /\ lastOp.err = NoError
    /\ lastOp.provider = <<".", ".", "/", "a">>
    /\ lastOp.token[1].AccessToken = <<"new", "<", Quote>>
    /\ lastOp.token[1].RefreshToken = << >>
    /\ lastOp.token[1].ExpiresIn = 0

(***************************************************************************)
(* Vocabulary of the claims on the named providers.                        *)
(***************************************************************************)
LoadStep == ops' = ops + 1 /\ lastOp'.op = "load"

\* both names lead to the same token file
SameBase(p, q) == Base(p) = Base(q)

\* a Save under exactly this provider name has succeeded
SavedAs(p) ==
    \E i \in 1..Len(history) : history[i].kind = "save" /\ history[i].provider = p

\* nothing has been written where the provider's token is kept
Untouched(p) ==
    \A i \in 1..Len(history) : ~SameBase(history[i].provider, p)

\* no other program has written under the root
ForeignFree == \A i \in 1..Len(history) : history[i].kind = "save"

GenericErrors == {ErrReadToken, ErrUnmarshalToken}

\* what Load makes of a directory or of a file that does not parse
UnreadableIsGeneric ==
    LET path == LoadPaths[fsRoot][lastOp'.provider]
    IN  /\ path \in dirs => lastOp'.err = ErrReadToken /\ lastOp'.token = << >>
        /\ (path \in DOMAIN fs /\ ~fs[path].json) =>
               lastOp'.err = ErrUnmarshalToken /\ lastOp'.token = << >>
        /\ ErrTokenNotFound \notin GenericErrors

(***************************************************************************)
(* C12: Load(provider) for a provider for which no Save has ever succeeded *)
(* on the root returns ErrTokenNotFound and no Token; a read failure other *)
(* than non-existence, or a file that does not parse, returns a generic    *)
(* storage error and never ErrTokenNotFound.                               *)
(***************************************************************************)
\* C12 as stated (no other program having written under the root): not
\* found whenever no Save under this provider name has succeeded
C12_NotFoundUnlessSaved ==
    [][LoadStep =>
          /\ (ForeignFree /\ ~SavedAs(lastOp'.provider)) =>
                 lastOp'.err = ErrTokenNotFound /\ lastOp'.token = << >>
          /\ UnreadableIsGeneric]_vars

\* C12 amended: Load returns ErrTokenNotFound and no Token exactly when
\* nothing exists at the provider's token path, which is the case when
\* nothing was saved or written under any name with the same base name; a
\* directory there, or a file that does not parse, gives a generic error
C12_NotFoundIffNoFile ==
    [][LoadStep =>
          /\ Untouched(lastOp'.provider) =>
                 lastOp'.err = ErrTokenNotFound /\ lastOp'.token = << >>
          /\ lastOp'.err = ErrTokenNotFound <=>
                 /\ LoadPaths[fsRoot][lastOp'.provider] \notin DOMAIN fs
                 /\ LoadPaths[fsRoot][lastOp'.provider] \notin dirs
          /\ UnreadableIsGeneric]_vars

\* "youtube" is loaded and not found after "linkedin" was saved
C12_Witness ==
    /\ lastOp.op = "load"
    /\ lastOp.provider = <<"youtube">>
    /\ lastOp.err = ErrTokenNotFound
    /\ lastOp.token = << >>
    /\ SavedAs(<<"linkedin">>)

(***************************************************************************)
(* C13: after any sequence of successful Save calls on one root,           *)
(* Load(provider) returns the token of the most recent Save made for that  *)
(* same provider; tokens saved earlier for it are no longer retrievable.   *)
(***************************************************************************)
Last(I) == CHOOSE i \in I : \A j \in I : j <= i

\* the token of the most recent Save made under exactly this provider name
LastSavedAs(p) ==
    history[Last({i \in 1..Len(history) :
                     history[i].kind = "save" /\ history[i].provider = p})].token[1]

\* the most recent event where the provider's token is kept
LastEventOn(p) ==
    history[Last({i \in 1..Len(history) : SameBase(history[i].provider, p)})]

Coerced(token) ==
    [AccessToken |-> ToValidUTF8(token.AccessToken),
     RefreshToken |-> ToValidUTF8(token.RefreshToken),
     TokenType |-> ToValidUTF8(token.TokenType),
     ExpiresIn |-> token.ExpiresIn]

\* C13 as stated, for tokens of valid UTF-8 text and a root that only Save
\* writes to: Load returns what was last saved under the provider's name
C13_LastWriteWins ==
    [][(/\ LoadStep
        /\ ForeignFree
        /\ SavedAs(lastOp'.provider)
        /\ ValidToken(LastSavedAs(lastOp'.provider))) =>
           /\ lastOp'.err = NoError
           /\ lastOp'.token = <<LastSavedAs(lastOp'.provider)>>]_vars

\* C13 amended: Load returns what the most recent successful Save under any
\* name with the same base name stored (text that is not valid UTF-8 being
\* coerced as in C11), and nothing that was saved before it
C13_LastWriteToFileWins ==
    [][(/\ LoadStep
        /\ ~Untouched(lastOp'.provider)
        /\ LastEventOn(lastOp'.provider).kind = "save") =>
           /\ lastOp'.err = NoError
           /\ lastOp'.token = <<Coerced(LastEventOn(lastOp'.provider).token[1])>>]_vars

\* "youtube" then "x/youtube" are saved with different tokens, and Load of
\* "youtube" returns the second one
C13_Witness ==
    /\ Len(history) = 2
    /\ history[1].kind = "save" /\ history[1].provider = <<"youtube">>
    /\ history[2].kind = "save" /\ history[2].provider = <<"x", "/", "youtube">>
    /\ history[1].token # history[2].token
    /\ lastOp.op = "load"
    /\ lastOp.provider = <<"youtube">>
    /\ lastOp.token = history[2].token

(***************************************************************************)
(* C17: Validate returns no error exactly when client identifier, client   *)
(* secret and redirect target are non-empty and scopes has at least one    *)
(* entry, whatever the two endpoint URLs; otherwise its error names the    *)
(* first missing field in the order client identifier, client secret,      *)
(* redirect target, scopes.  Validate changes nothing.                     *)
(***************************************************************************)
RequiredFields == <<"ClientID", "ClientSecret", "RedirectURL", "Scopes">>

IsMissing(c, f) == c[f] = << >>

\* the required fields that are missing, in the order of the claim
MissingFields(c) == SelectSeq(RequiredFields, LAMBDA f : IsMissing(c, f))

NamesField(err, f) ==
    CASE f = "ClientID" -> err = <<"client ID is required">>
      [] f = "ClientSecret" -> err = <<"client secret is required">>
      [] f = "RedirectURL" -> err = <<"redirect URL is required">>
      [] f = "Scopes" -> err = <<"at least one scope is required">>

C17_ValidateFirstMissing ==
    [][(lastCall'.op = "Validate" /\ flowOps' = flowOps + 1) =>
          /\ lastCall'.err = NoError <=> MissingFields(lastCall'.config) = << >>
          /\ MissingFields(lastCall'.config) # << >> =>
                 NamesField(lastCall'.err, Head(MissingFields(lastCall'.config)))
          /\ flow' = flow
          /\ UNCHANGED <<cbVars, fsVars>>]_vars

\* a Config with neither secret nor redirect target, and an empty
\* authorization endpoint: the error names the client secret
C17_Witness ==
    /\ lastCall.op = "Validate"
    /\ lastCall.config.ClientID # << >>
    /\ lastCall.config.ClientSecret = << >>
    /\ lastCall.config.RedirectURL = << >>
    /\ lastCall.config.AuthURL = << >>
    /\ lastCall.err = <<"client secret is required">>

(***************************************************************************)
(* Vocabulary of the claims on ExchangeCode and RefreshAccessToken.        *)
(***************************************************************************)
\* the request was made and a response arrived whole
Received(c) == c.sent /\ c.resp.transport = "ok" /\ c.resp.bodyRead

Succeeded(c) == c.token # << >> /\ c.err = NoError
Failed(c) == c.token = << >> /\ c.err # NoError

StartsWith(s, prefix) == Len(s) >= Len(prefix) /\ SubSeq(s, 1, Len(prefix)) = prefix

\* the failures of the three kinds, as ExchangeCode reports them
ExchangeFailures(c) ==
    /\ (Received(c) /\ c.resp.status # StatusOK) =>
           Failed(c) /\ Contains(c.err, Itoa(c.resp.status))
    /\ (c.sent /\ c.resp.transport # "ok") =>
           /\ Failed(c)
           /\ StartsWith(c.err, <<"failed to exchange code: ">>)
           /\ Contains(c.err, c.resp.cause)

(***************************************************************************)
(* C14: ExchangeCode returns a Token and no error exactly when the         *)
(* transport call succeeds, the status is 200 and the body parses as JSON; *)
(* in every other case it returns no Token: on a non-200 status an error   *)
(* carrying the status code, on transport failure a wrapped transport      *)
(* error, on an unparseable 200 body a parse error.                        *)
(***************************************************************************)
\* C14 as stated: success exactly when the 200 body is JSON
C14_TokenIffBodyIsJSON ==
    lastCall.op = "ExchangeCode" =>
        /\ Succeeded(lastCall) <=>
               (Received(lastCall) /\ lastCall.resp.status = StatusOK
                    /\ lastCall.resp.body.json)
        /\ ~Succeeded(lastCall) => Failed(lastCall)
        /\ ExchangeFailures(lastCall)
        /\ (Received(lastCall) /\ lastCall.resp.status = StatusOK
                /\ ~lastCall.resp.body.json) =>
               StartsWith(lastCall.err, <<"failed to parse response: ">>)

\* C14 amended: success exactly when the 200 body decodes into a Token (a
\* JSON object whose members of the four names have the fields' types); a
\* 200 body that does not, valid JSON or not, gives the parse error
C14_TokenIffBodyDecodes ==
    lastCall.op = "ExchangeCode" =>
        /\ Succeeded(lastCall) <=>
               (Received(lastCall) /\ lastCall.resp.status = StatusOK
                    /\ ~UnmarshalFails(lastCall.resp.body))
        /\ ~Succeeded(lastCall) => Failed(lastCall)
        /\ ExchangeFailures(lastCall)
        /\ (Received(lastCall) /\ lastCall.resp.status = StatusOK
                /\ UnmarshalFails(lastCall.resp.body)) =>
               StartsWith(lastCall.err, <<"failed to parse response: ">>)

\* a 201 response with a token in its body: no Token, and an error with 201
C14_Witness ==
    /\ lastCall.op = "ExchangeCode"
    /\ Received(lastCall)
    /\ lastCall.resp.status = 201
    /\ lastCall.resp.body = TokenBody(<<"tok1">>, <<"r1">>)
    /\ lastCall.token = << >>
    /\ lastCall.err = <<"token exchange failed: status ", "2", "0", "1">>

(***************************************************************************)
(* C15: RefreshAccessToken posts a refresh grant (refresh_token, client    *)
(* id, client secret, grant_type=refresh_token, no redirect target) to the *)
(* token endpoint and, on a 200 JSON response, returns a Token whose       *)
(* access token is the one in the response; a 200 response without a       *)
(* refresh_token member is a success with an empty refresh token.          *)
(***************************************************************************)
\* the form posted is the refresh grant, and it goes to the token endpoint
PostsRefreshGrant(c) ==
    /\ DOMAIN c.form = {"refresh_token", "client_id", "client_secret", "grant_type"}
    /\ c.form.refresh_token = c.arg
    /\ c.form.client_id = flow[1].ClientID
    /\ c.form.client_secret = flow[1].ClientSecret
    /\ c.form.grant_type = <<"refresh_token">>
    /\ c.url = flow[1].TokenURL

\* the Token returned is the one of the response body
ReturnsResponseToken(c) ==
    /\ Succeeded(c)
    /\ HasMember(c.resp.body, "access_token") =>
           c.token[1].AccessToken = DecodeString(Member(c.resp.body, "access_token").text)
    /\ ~HasMember(c.resp.body, "refresh_token") => c.token[1].RefreshToken = << >>

\* C15 as stated: every 200 response with a JSON body is a success
C15_RefreshOnJSON ==
    lastCall.op = "RefreshAccessToken" =>
        /\ PostsRefreshGrant(lastCall)
        /\ (Received(lastCall) /\ lastCall.resp.status = StatusOK
                /\ lastCall.resp.body.json) => ReturnsResponseToken(lastCall)

\* C15 amended: every 200 response whose body decodes into a Token is a
\* success, with or without a refresh_token member
C15_RefreshOnTokenJSON ==
    lastCall.op = "RefreshAccessToken" =>
        /\ PostsRefreshGrant(lastCall)
        /\ (Received(lastCall) /\ lastCall.resp.status = StatusOK
                /\ ~UnmarshalFails(lastCall.resp.body)) => ReturnsResponseToken(lastCall)

\* client id "id", secret "secret", RefreshAccessToken("refresh-abc") answered
\* 200 {"access_token":"tok1","token_type":"Bearer","expires_in":3600}
C15_Witness ==
    /\ lastCall.op = "RefreshAccessToken"
    /\ flow[1].ClientID = <<"id">>
    /\ flow[1].ClientSecret = <<"secret">>
    /\ lastCall.arg = <<"refresh-abc">>
    /\ lastCall.resp.status = StatusOK
    /\ lastCall.resp.body = NoRefreshBody(<<"tok1">>)
    /\ lastCall.err = NoError
    /\ lastCall.token[1].AccessToken = <<"tok1">>
    /\ lastCall.token[1].RefreshToken = << >>

(***************************************************************************)
(* The query of a URL as its reader (net/url) finds it: the fragment is    *)
(* what follows the first "#", the query what follows the first "?" of the *)
(* rest; parameters are separated by "&", key and value by the first "=".  *)
(***************************************************************************)
Index(str, d) ==
    IF \E i \in 1..Len(str) : str[i] = d
    THEN CHOOSE i \in 1..Len(str) : str[i] = d /\ \A j \in 1..(i - 1) : str[j] # d
    ELSE 0

Before(str, d) == IF Index(str, d) = 0 THEN str ELSE SubSeq(str, 1, Index(str, d) - 1)

After(str, d) ==
    IF Index(str, d) = 0 THEN << >> ELSE SubSeq(str, Index(str, d) + 1, Len(str))

RawQuery(u) == After(Before(u, "#"), "?")

UnescapePiece(p) ==
    CASE p = "+" -> " "
      [] p = "%2B" -> "+"
      [] p = "%3F" -> "?"
      [] p = "%23" -> "#"
      [] p = "%26" -> "&"
      [] p = "%3D" -> "="
      [] p = "%2F" -> "/"
      [] p = "%3A" -> ":"
      [] OTHER -> p

QueryUnescape(str) == [i \in 1..Len(str) |-> UnescapePiece(str[i])]

\* url.Values.Get of the parsed query: the first value of the key, or ""
RECURSIVE QueryGet(_, _)
QueryGet(query, key) ==
    IF query = << >> THEN << >>
    ELSE IF QueryUnescape(Before(Before(query, "&"), "=")) = <<key>>
         THEN QueryUnescape(After(Before(query, "&"), "="))
         ELSE QueryGet(After(query, "&"), key)

(***************************************************************************)
(* C18: for every valid Config, GenerateAuthURL returns a non-empty state  *)
(* token, the 32 hex characters of its 16 random bytes, and a URL that     *)
(* begins with the authorization endpoint and whose query carries that     *)
(* state token, the client id, the redirect target, the space-joined       *)
(* scopes, response_type=code and access_type=offline; it makes no network *)
(* call and leaves the Flow and its Config unchanged.                      *)
(***************************************************************************)
StateTokenOf(c) ==
    /\ c.state # << >>
    /\ Len(c.bytes) = 16
    /\ Len(c.state) = 32
    /\ \A i \in 1..32 : \E d \in 1..16 : c.state[i] = HexDigits[d]
    /\ LET HexValue(ch) == CHOOSE v \in 0..15 : HexDigits[v + 1] = ch
       IN \A i \in 1..16 :
              (HexValue(c.state[2 * i - 1]) * 16) + HexValue(c.state[2 * i]) = c.bytes[i]

QueryCarries(c, config) ==
    /\ QueryGet(RawQuery(c.url), "state") = c.state
    /\ QueryGet(RawQuery(c.url), "client_id") = config.ClientID
    /\ QueryGet(RawQuery(c.url), "redirect_uri") = config.RedirectURL
    /\ QueryGet(RawQuery(c.url), "scope") = JoinStrings(config.Scopes, " ")
    /\ QueryGet(RawQuery(c.url), "response_type") = <<"code">>
    /\ QueryGet(RawQuery(c.url), "access_type") = <<"offline">>

\* C18 as stated: a GenerateAuthURL step on a valid Config leaves the Flow
\* alone, sends nothing, and returns the state token and the URL described
C18_AuthURLCarriesParams ==
    [][(lastCall'.op = "GenerateAuthURL" /\ flowOps' # flowOps) =>
           /\ flow' = flow
           /\ ~lastCall'.sent
           /\ Validate(flow[1]) = NoError =>
                  /\ StateTokenOf(lastCall')
                  /\ StartsWith(lastCall'.url, flow[1].AuthURL)
                  /\ QueryCarries(lastCall', flow[1])]_vars

(***************************************************************************)
(* C16: no Flow operation (GenerateAuthURL, ExchangeCode,                  *)
(* RefreshAccessToken) runs on a Config for which Validate would fail:     *)
(* whenever one has run, the client identifier, the client secret and the  *)
(* redirect target of the Flow's Config are non-empty and it has a scope.  *)
(***************************************************************************)
C16_OperationsOnValidConfig ==
    lastCall.op \in {"GenerateAuthURL", "ExchangeCode", "RefreshAccessToken"} =>
        /\ Validate(flow[1]) = NoError
        /\ flow[1].ClientID # << >>
        /\ flow[1].ClientSecret # << >>
        /\ flow[1].RedirectURL # << >>
        /\ flow[1].Scopes # << >>

(***************************************************************************)
(* Secrets of a token-endpoint call: the client secret, the refresh token  *)
(* sent, and the access and refresh tokens of the response body.  Two      *)
(* responses have the same shape when they differ in those tokens only.    *)
(***************************************************************************)
TokenKeys == {"access_token", "refresh_token"}

Pieces(str) == {str[i] : i \in 1..Len(str)}

BodySecrets(body) ==
    UNION {Pieces(DecodeString(body.members[i][2].text)) :
               i \in {j \in 1..Len(body.members) :
                          /\ body.members[j][1] \in TokenKeys
                          /\ body.members[j][2].kind = "string"}}

Shape(resp) ==
    [resp EXCEPT !.body.members =
        [i \in 1..Len(resp.body.members) |->
            IF resp.body.members[i][1] \in TokenKeys
                   /\ resp.body.members[i][2].kind = "string"
            THEN <<resp.body.members[i][1], JSONString(<< >>)>>
            ELSE resp.body.members[i]]]

CallResult(c, config, resp) ==
    IF c.op = "ExchangeCode" THEN ExchangeResult(config, resp)
    ELSE RefreshResult(config, resp)

(***************************************************************************)
(* C20: no error returned by ExchangeCode or RefreshAccessToken contains   *)
(* the client secret, an access token or a refresh token, and two runs     *)
(* that differ only in the values of those secrets (same status, same      *)
(* transport outcome, same body shape) return identical error messages.    *)
(***************************************************************************)
C20_ErrorsCarryNoSecret ==
    lastCall.op \in {"ExchangeCode", "RefreshAccessToken"} =>
        /\ Pieces(lastCall.err) \cap
               (Pieces(flow[1].ClientSecret) \cup BodySecrets(lastCall.resp.body)
                    \cup (IF lastCall.op = "RefreshAccessToken"
                          THEN Pieces(lastCall.arg) ELSE {})) = {}
        /\ \A secret \in ClientSecrets, resp \in Responses :
               Shape(resp) = Shape(lastCall.resp) =>
                   CallResult(lastCall, [flow[1] EXCEPT !.ClientSecret = secret], resp).err
                       = lastCall.err

\* a failed exchange with client secret "secret", answered 400 with a body
\* that holds tok1 and r1; the endpoint could have issued tok2 and r2 instead
C20_Witness ==
    /\ lastCall.op = "ExchangeCode"
    /\ flow[1].ClientSecret = <<"secret">>
    /\ lastCall.resp.status = StatusBadRequest
    /\ lastCall.resp.body = TokenBody(<<"tok1">>, <<"r1">>)
    /\ lastCall.err = <<"token exchange failed: status ", "4", "0", "0">>
    /\ \E resp \in Responses :
           /\ resp.body = TokenBody(<<"tok2">>, <<"r2">>)
           /\ Shape(resp) = Shape(lastCall.resp)

(***************************************************************************)
(* C22: after WaitForCallback has returned, on whatever path, no handler   *)
(* goroutine stays blocked forever in its channel send: every handler      *)
(* invocation eventually finishes, also when two or more requests publish  *)
(* a result of the same kind.  A handler that a later invocation no longer *)
(* follows counts as finished.                                             *)
(***************************************************************************)
C22_HandlersFinish ==
    \A r \in Reqs : (Returned /\ reqs[r].pc = "sending") ~> (reqs[r].pc # "sending")

(***************************************************************************)
(* The caller of invocation k has taken its outcome.                       *)
(***************************************************************************)
Resumed(k) == call = k /\ wpc \in {"woken", "returned"}

\* before the caller of invocation k reaches the select, the one event that
\* has occurred is a published code, or a published failure
CodeFirst(k) ==
    call = k /\ wpc = "running" /\ codeChan # << >> /\ errChan = << >> /\ ctxErr = NoError

FailureFirst(k) ==
    call = k /\ wpc = "running" /\ errChan # << >> /\ codeChan = << >> /\ ctxErr = NoError

(***************************************************************************)
(* C23: when more than one of the three wait events has occurred by the    *)
(* time the waiter resumes, WaitForCallback returns the outcome of the one *)
(* that occurred first: a code published before a failure or before the    *)
(* deadline expired is returned as that code, and a failure published      *)
(* before a code is returned as that failure.                              *)
(***************************************************************************)
C23_FirstEventWins ==
    \A k \in Calls :
        /\ [](CodeFirst(k) => [](Resumed(k) => (ret.code # "" /\ ret.err = NoError)))
        /\ [](FailureFirst(k) =>
                 [](Resumed(k) => ret.err \in {ErrInvalidState, ErrMissingCode}))

(***************************************************************************)
(* C24: for any number and interleaving of inbound requests, the caller    *)
(* takes a code only if a request handled during that invocation carried   *)
(* state equal to expectedState together with that same non-empty code; a  *)
(* request with another state never publishes its code.                    *)
(***************************************************************************)
C24_CodeOnlyFromMatchingRequest ==
    /\ (Resumed(call) /\ ret.code # "") =>
           \E r \in Handled(call) :
               reqs[r].state = expected /\ reqs[r].code = ret.code /\ reqs[r].code # ""
    /\ \A r \in Reqs :
           (reqs[r].path = CallbackPath /\ reqs[r].state # expected) => reqs[r].send # "code"

\* a request with the attacker's state and code and a matching request are
\* both handled, in either order; the code returned is the matching one's
C24_Witness ==
    /\ Returned /\ ret.code = "auth-xyz"
    /\ \E r, q \in Handled(call) :
           /\ reqs[r].state = "attacker-state" /\ reqs[r].code = "attacker-code"
           /\ reqs[q].state = expected /\ reqs[q].code = "auth-xyz"

(***************************************************************************)
(* C25: a single request with a mismatched state ends the attempt: if it   *)
(* is handled and the caller takes its outcome before any matching request *)
(* has been handled, the invocation returns without a code and closes the  *)
(* listener, and a valid redirect that arrives afterwards, the deadline    *)
(* not yet passed, is not accepted by that invocation.                     *)
(***************************************************************************)
Mismatched(k) == {r \in Handled(k) : reqs[r].state # expected}
Matching(k) == {r \in Handled(k) : reqs[r].state = expected}

C25_MismatchEndsAttempt ==
    [][/\ (wpc \in {"running", "parked"} /\ wpc' = "woken"
              /\ Mismatched(call)' # {} /\ Matching(call)' = {}) => ret'.code = ""
       /\ (Returned /\ Mismatched(call) # {}) =>
              /\ portOwner # Listener(call)
              /\ call' = call =>
                     \A r \in Reqs : reqs[r].pc = "new" => reqs'[r].pc = "new"]_vars

\* the attacker's request made the invocation return ErrInvalidState; the
\* deadline has not passed, the port is free, and a request is yet to come
C25_Witness ==
    /\ Returned /\ ret = [code |-> "", err |-> ErrInvalidState]
    /\ Mismatched(call) # {} /\ Matching(call) = {}
    /\ ctxErr = NoError
    /\ portOwner = Free
    /\ \E r \in Reqs : reqs[r].pc = "new"

(***************************************************************************)
(* C26: Save(provider, token) changes what Load(other) returns only when   *)
(* other has the same base name as provider: providers with another base   *)
(* name are unaffected, while provider names with equal base names, such   *)
(* as "youtube" and "x/youtube", share one file: after a successful Save   *)
(* under one of them Load of the other returns the token just saved.       *)
(***************************************************************************)
SaveStep == ops' = ops + 1 /\ lastOp'.op = "save"

C26_SaveFrame ==
    [][SaveStep =>
        \A other \in AllProviders :
            IF SameBase(other, lastOp'.provider)
            THEN lastOp'.err = NoError =>
                    LoadResult(LoadPaths[fsRoot][other])' =
                        [err |-> NoError, token |-> <<Coerced(lastOp'.token[1])>>]
            ELSE LoadResult(LoadPaths[fsRoot][other])' =
                    LoadResult(LoadPaths[fsRoot][other])]_vars

\* Save("linkedin"), then Save("x/youtube"): Load("youtube") now returns the
\* token saved as "x/youtube", Load("linkedin") what it returned before
C26_Witness ==
    /\ lastOp.op = "save" /\ lastOp.provider = <<"x", "/", "youtube">>
    /\ lastOp.err = NoError
    /\ LoadResult(LoadPaths[fsRoot][<<"youtube">>]).token = <<Coerced(lastOp.token[1])>>
    /\ SavedAs(<<"linkedin">>) /\ ~SavedAs(<<"youtube">>)
    /\ LoadResult(LoadPaths[fsRoot][<<"linkedin">>]).err = NoError
    /\ LoadResult(LoadPaths[fsRoot][<<"linkedin">>]).token # <<Coerced(lastOp.token[1])>>

(***************************************************************************)
(* C27: ExchangeCode and RefreshAccessToken do not validate the contents   *)
(* of a 200 response: a 200 body that is valid JSON but carries no         *)
(* access_token, such as {}, is returned as a successful Token with an     *)
(* empty access token and no error.                                        *)
(***************************************************************************)
TokenCall == lastCall.op \in {"ExchangeCode", "RefreshAccessToken"}

\* a 200 response read whole whose JSON body has no access_token member
NoAccessToken(c) ==
    /\ Received(c) /\ c.resp.status = StatusOK
    /\ c.resp.body.json /\ ~HasMember(c.resp.body, "access_token")

EmptyTokenReturned(c) == Succeeded(c) /\ c.token[1].AccessToken = << >>

\* C27 as stated: every such body is a success
C27_NoAccessTokenIsSuccess ==
    (TokenCall /\ NoAccessToken(lastCall)) => EmptyTokenReturned(lastCall)

\* C27 amended: every such body that decodes into a Token is a success
C27_DecodedNoAccessTokenIsSuccess ==
    (TokenCall /\ NoAccessToken(lastCall) /\ ~UnmarshalFails(lastCall.resp.body)) =>
        EmptyTokenReturned(lastCall)

\* ExchangeCode answered 200 {} returns the zero Token and no error
C27_Witness ==
    /\ lastCall.op = "ExchangeCode"
    /\ NoAccessToken(lastCall)
    /\ lastCall.resp.body = JSONObject(<< >>)
    /\ lastCall.err = NoError
    /\ lastCall.token = <<[AccessToken |-> << >>, RefreshToken |-> << >>,
                           TokenType |-> << >>, ExpiresIn |-> 0]>>

(***************************************************************************)
(* The steps of the auth command, and the states in which one has failed.  *)
(***************************************************************************)
GenerateStep == lastCall'.op = "GenerateAuthURL" /\ lastCall.op # "GenerateAuthURL"
WaitStep == call' # call
ExchangeStep == lastCall'.op = "ExchangeCode" /\ lastCall.op # "ExchangeCode"

AuthFailed ==
    \/ wpc = "returned" /\ call >= 1 /\ ret.err # NoError
    \/ lastCall.op = "ExchangeCode" /\ lastCall.err # NoError
    \/ lastOp.op = "save" /\ lastOp.err # NoError

(***************************************************************************)
(* C21: in the first-time authorization flow the steps occur only in the   *)
(* order GenerateAuthURL, WaitForCallback, ExchangeCode, Save:             *)
(* WaitForCallback is given the state token of that GenerateAuthURL call,  *)
(* ExchangeCode runs only with a code returned by WaitForCallback, and a   *)
(* token, the one ExchangeCode returned, is saved only after ExchangeCode  *)
(* has succeeded.  A failure of any step ends the flow with nothing saved  *)
(* and no later step executed.                                             *)
(***************************************************************************)
C21_AuthStepsInOrder ==
    [][/\ GenerateStep => call = 0 /\ lastOp.op # "save"
       /\ WaitStep =>
              /\ lastCall.op = "GenerateAuthURL" /\ lastOp.op # "save"
              /\ expected' = Text(lastCall.state)
       /\ ExchangeStep =>
              /\ wpc = "returned" /\ call = 1 /\ lastOp.op # "save"
              /\ ret.err = NoError /\ ret.code # ""
              /\ lastCall'.arg = <<ret.code>>
       /\ SaveStep =>
              /\ lastCall.op = "ExchangeCode" /\ lastCall.err = NoError
              /\ lastOp'.token = lastCall.token
       /\ AuthFailed =>
              /\ ~GenerateStep /\ ~WaitStep /\ ~ExchangeStep /\ ~SaveStep
              /\ fs' = fs
              /\ SavePaths[fsRoot][<<"youtube">>] \notin DOMAIN fs]_vars

\* the whole flow: the redirect brought "auth-xyz", the endpoint issued tok1
\* and r1, and the token file of "youtube" holds them
C21_Witness ==
    /\ ret = [code |-> "auth-xyz", err |-> NoError]
    /\ lastCall.op = "ExchangeCode" /\ lastCall.arg = <<"auth-xyz">>
    /\ lastCall.err = NoError
    /\ lastCall.token[1].AccessToken = <<"tok1">>
    /\ lastOp.op = "save" /\ lastOp.err = NoError
    /\ fs[SavePaths[fsRoot][<<"youtube">>]] = Marshal(lastCall.token[1])

(***************************************************************************)
(* C28: in the authentication flow the callback server is started, and is  *)
(* listening on its port, before the browser is opened on the              *)
(* authorization URL, so that a redirect never arrives while no listener   *)
(* is bound.                                                               *)
(***************************************************************************)
C28_ListenBeforeBrowser ==
    [][browser' # browser => (call >= 1 /\ portOwner = Listener(call))]_vars


\* how many times the item occurs in the slice
Count(list, x) == Cardinality({i \in DOMAIN list : list[i] = x})

\* the items of the slice that pass the filters, as GetFeed's loop keeps them
Kept(list, opts) == SelectSeq(list, LAMBDA item : Passes(item, opts))

\* no item of the slice is older than one after it
NewestFirst(list) ==
    \A i, j \in DOMAIN list :
        i < j => list[i].PublishedAt >= list[j].PublishedAt

\* the slice holds nothing that `from` does not hold, and every item of
\* `from` that is newer than the oldest one of the slice
NewestOf(list, from) ==
    /\ \A x \in AggItems : Count(list, x) <= Count(from, x)
    /\ \A x \in AggItems, i \in DOMAIN list :
          x.PublishedAt > list[i].PublishedAt => Count(list, x) = Count(from, x)

\* C30: a GetFeed call returns the held items that pass the filters, newest
\* first; with Limit > 0 it returns at most Limit of them, the newest ones,
\* and with Limit 0 all of them; it leaves the held items as they were.
C30_GetFeedNewestFirst ==
    [][feed' # feed =>
        LET opts == feed'.opts
            result == feed'.result
            kept == Kept(items, opts)
        IN  /\ NewestFirst(result)
            /\ NewestOf(result, kept)
            /\ opts.Limit > 0 =>
                  /\ Len(result) <= opts.Limit
                  /\ Len(result) < opts.Limit => Len(result) = Len(kept)
            /\ opts.Limit = 0 =>
                  \A x \in AggItems : Count(result, x) = Count(kept, x)
            /\ items' = items]_vars

\* a GetFeed call with Limit 2 found three items that pass its filters, not
\* all published at the same time, and returned two
C30_Witness ==
    /\ feed.called
    /\ feed.opts.Limit = 2
    /\ Len(items) = 3
    /\ Len(Kept(items, feed.opts)) = 3
    /\ Len(feed.result) = 2
    /\ \E i, j \in DOMAIN items : items[i].PublishedAt < items[j].PublishedAt
    /\ feed.opts.Sources # << >>


\* the goroutine of the subscription is inside agg.AddItems
InAddItems(s) == task[s].pc \in {"read", "write"}

\* wg.Wait() has returned
Waited == cmd.pc \in {"feed", "done"}

\* the subscriptions whose goroutine was started
Started == 1..cmd.subs

\* C29: in the feed command no two fetch goroutines are inside AddItems at
\* once; once wg.Wait() has returned, and so when GetFeed runs, every fetch
\* goroutine has finished and the aggregator holds every item of every
\* successful fetch, once, and nothing else; a fetch that failed added
\* nothing, and while the command starts the goroutines or waits for them
\* some goroutine can take a step.
C29_FetchesThenFeed ==
    /\ \A s, t \in Subs : (InAddItems(s) /\ InAddItems(t)) => s = t
    /\ feed.called => Waited
    /\ Waited =>
          /\ \A s \in Started : task[s].pc = "done"
          /\ \A s \in Started : \A i \in DOMAIN task[s].items :
                Count(items, task[s].items[i]) = 1
          /\ \A i \in DOMAIN items : \E s \in Started :
                ~task[s].err /\ ContainsItem(task[s].items, items[i])
    /\ \A s \in Subs : task[s].err => task[s].items = << >>
    /\ cmd.pc = "loop" => ENABLED FeedNext

\* the feed was built after the fetch of the first subscription failed, the
\* fetch of the second found two videos and the fetch of the third one, and
\* the goroutine of the third called AddItems before that of the second
C29_Witness ==
    /\ cmd.pc = "done" /\ cmd.subs = 3
    /\ task[1].err
    /\ Len(task[2].items) = 2
    /\ Len(task[3].items) = 1
    /\ Len(items) = 3
    /\ items[1] = task[3].items[1]
    /\ feed.called /\ Len(feed.result) = 3

====
